---------------------------- MODULE Spec2Model ----------------------------
(***************************************************************************)
(* Model of the SRT translation pipeline: the segment parser               *)
(* (lib/client parseSegment), the token-budget batcher (lib/srt            *)
(* groupSegmentsByTokenLength), the server's translation route             *)
(* (app/api/route.ts: retrieveTranslation, POST) and the client's run      *)
(* loop (app/page.tsx: requestTranslationBatch, handleStream,              *)
(* handleSubmit).                                                          *)
(*                                                                         *)
(* Text is modelled character by character: a JavaScript string is a      *)
(* sequence of one-character strings, so that splitting, trimming,         *)
(* parsing and serialising are computed as the code computes them.         *)
(***************************************************************************)
EXTENDS Integers, Sequences, FiniteSets, TLC

(***************************************************************************)
(* Character-level helpers (JavaScript String / RegExp semantics).         *)
(***************************************************************************)

\* The whitespace characters of the model's alphabet (JS \s and trim()).
WhitespaceChars == {" ", "\t", "\n", "\r"}

IsWs(c) == c \in WhitespaceChars

DigitChars == {"0", "1", "2", "3", "4", "5", "6", "7", "8", "9"}

IsDigit(c) == c \in DigitChars

SetMin(S) == CHOOSE x \in S : \A y \in S : x <= y

SetMax(S) == CHOOSE x \in S : \A y \in S : x >= y

\* String.prototype.trim
Trim(s) ==
    LET idx == {i \in 1..Len(s) : ~IsWs(s[i])}
    IN IF idx = {} THEN <<>> ELSE SubSeq(s, SetMin(idx), SetMax(idx))

\* String.prototype.trimEnd
TrimEnd(s) ==
    LET idx == {i \in 1..Len(s) : ~IsWs(s[i])}
    IN IF idx = {} THEN <<>> ELSE SubSeq(s, 1, SetMax(idx))

\* String.prototype.trimStart (used inside parseInt)
TrimStart(s) ==
    LET idx == {i \in 1..Len(s) : ~IsWs(s[i])}
    IN IF idx = {} THEN <<>> ELSE SubSeq(s, SetMin(idx), Len(s))

\* Array.prototype.join / string concatenation of a list of strings.
RECURSIVE JoinWith(_, _)
JoinWith(parts, sep) ==
    IF parts = <<>> THEN <<>>
    ELSE IF Len(parts) = 1 THEN parts[1]
    ELSE parts[1] \o sep \o JoinWith(Tail(parts), sep)

\* Concatenation of a list of strings.
RECURSIVE Concat(_)
Concat(parts) ==
    IF parts = <<>> THEN <<>> ELSE Head(parts) \o Concat(Tail(parts))

\* s.startsWith(p, i) with 1-based i.
HasAt(s, i, p) ==
    /\ i >= 1
    /\ i + Len(p) - 1 <= Len(s)
    /\ \A k \in 1..Len(p) : s[i + k - 1] = p[k]

\* The end of the maximal whitespace run that starts at position i
\* (i - 1 when s[i] is not whitespace).
WsRunEnd(s, i) ==
    LET stops == {j \in i..Len(s) : ~IsWs(s[j])}
    IN IF stops = {} THEN Len(s) ELSE SetMin(stops) - 1

\* Array.prototype.map over a sequence.
MapSeq(Op(_), s) == [i \in 1..Len(s) |-> Op(s[i])]

\* Array.prototype.filter over a sequence.
RECURSIVE FilterSeq(_, _)
FilterSeq(Keep(_), s) ==
    IF s = <<>> THEN <<>>
    ELSE IF Keep(Head(s)) THEN <<Head(s)>> \o FilterSeq(Keep, Tail(s))
    ELSE FilterSeq(Keep, Tail(s))

(***************************************************************************)
(* String.prototype.split(regexp): the pieces between successive leftmost  *)
(* matches.  A matcher M(s, i) gives the end position of the match that    *)
(* starts at i, or 0 when the pattern does not match at i.                 *)
(***************************************************************************)
RECURSIVE SplitFrom(_, _, _)
SplitFrom(M(_, _), s, pieceStart) ==
    LET starts == {j \in pieceStart..Len(s) : M(s, j) # 0}
    IN IF starts = {} THEN <<SubSeq(s, pieceStart, Len(s))>>
       ELSE <<SubSeq(s, pieceStart, SetMin(starts) - 1)>>
            \o SplitFrom(M, s, M(s, SetMin(starts)) + 1)

SplitRegex(M(_, _), s) == SplitFrom(M, s, 1)

\* /\r\n|\n/ at position i.
MatchLineBreak(s, i) ==
    IF s[i] = "\r" /\ i < Len(s) /\ s[i + 1] = "\n" THEN i + 1
    ELSE IF s[i] = "\n" THEN i
    ELSE 0

\* text.split(/\r\n|\n/)
SplitLines(s) == SplitRegex(MatchLineBreak, s)

\* SEGMENT_BLOCK_SPLIT_REGEX = /\r?\n\s*\r?\n/ at position i: after the
\* first line break the greedy \s* runs over the whole whitespace run and
\* backtracks to the last "\n" in it.
MatchBlockSeparator(s, i) ==
    LET firstNl == IF s[i] = "\r" /\ i < Len(s) /\ s[i + 1] = "\n" THEN i + 1
                   ELSE IF s[i] = "\n" THEN i
                   ELSE 0
    IN IF firstNl = 0 THEN 0
       ELSE LET runEnd == WsRunEnd(s, firstNl + 1)
                nls == {j \in (firstNl + 1)..runEnd : s[j] = "\n"}
            IN IF nls = {} THEN 0 ELSE SetMax(nls)

\* The stream decoder's separator /\r?\n\r?\n/ at position i.
MatchBlankLine(s, i) ==
    LET firstNl == IF s[i] = "\r" /\ i < Len(s) /\ s[i + 1] = "\n" THEN i + 1
                   ELSE IF s[i] = "\n" THEN i
                   ELSE 0
    IN IF firstNl = 0 \/ firstNl = Len(s) THEN 0
       ELSE IF s[firstNl + 1] = "\n" THEN firstNl + 1
       ELSE IF s[firstNl + 1] = "\r" /\ firstNl + 2 <= Len(s) /\ s[firstNl + 2] = "\n"
            THEN firstNl + 2
       ELSE 0

\* Number.NaN, kept apart from every integer a document can carry.
NaN == 0 - 1000000

\* Number.isFinite on the result of parseInt
IsFinite(n) == n # NaN

DigitValue(c) ==
    CASE c = "0" -> 0 [] c = "1" -> 1 [] c = "2" -> 2 [] c = "3" -> 3
      [] c = "4" -> 4 [] c = "5" -> 5 [] c = "6" -> 6 [] c = "7" -> 7
      [] c = "8" -> 8 [] c = "9" -> 9

RECURSIVE DigitsValue(_, _)
DigitsValue(ds, acc) ==
    IF ds = <<>> THEN acc
    ELSE DigitsValue(Tail(ds), acc * 10 + DigitValue(Head(ds)))

\* Number.parseInt(s, 10): leading whitespace, an optional sign, then the
\* longest run of decimal digits; NaN when there is no digit.
ParseInt(s) ==
    LET t == TrimStart(s)
        signed == t # <<>> /\ Head(t) \in {"-", "+"}
        body == IF signed THEN Tail(t) ELSE t
        stops == {j \in 1..Len(body) : ~IsDigit(body[j])}
        n == IF stops = {} THEN Len(body) ELSE SetMin(stops) - 1
    IN IF n = 0 THEN NaN
       ELSE IF signed /\ Head(t) = "-" THEN 0 - DigitsValue(SubSeq(body, 1, n), 0)
       ELSE DigitsValue(SubSeq(body, 1, n), 0)

DigitChar(d) ==
    CASE d = 0 -> "0" [] d = 1 -> "1" [] d = 2 -> "2" [] d = 3 -> "3"
      [] d = 4 -> "4" [] d = 5 -> "5" [] d = 6 -> "6" [] d = 7 -> "7"
      [] d = 8 -> "8" [] d = 9 -> "9"

\* Template-literal formatting of a number: `${n}`.
RECURSIVE NumberToString(_)
NumberToString(n) ==
    IF n = NaN THEN <<"N", "a", "N">>
    ELSE IF n < 0 THEN <<"-">> \o NumberToString(0 - n)
    ELSE IF n < 10 THEN <<DigitChar(n)>>
    ELSE NumberToString(n \div 10) \o <<DigitChar(n % 10)>>

(***************************************************************************)
(* Segment parser (lib/client).                                            *)
(***************************************************************************)

\* \d{2}:\d{2}:\d{2}[,.]\d{3} at position i: its end position, or 0.
MatchClockAt(s, i) ==
    IF /\ i >= 1
       /\ i + 11 <= Len(s)
       /\ \A k \in {0, 1, 3, 4, 6, 7, 9, 10, 11} : IsDigit(s[i + k])
       /\ s[i + 2] = ":"
       /\ s[i + 5] = ":"
       /\ s[i + 8] \in {",", "."}
    THEN i + 11
    ELSE 0

\* TIMESTAMP_LINE_REGEX anchored at position i: its end position, or 0.
MatchTimestampAt(s, i) ==
    LET e1 == MatchClockAt(s, i)
    IN IF e1 = 0 THEN 0
       ELSE LET a == WsRunEnd(s, e1 + 1) + 1
            IN IF ~HasAt(s, a, <<"-", "-", ">">>) THEN 0
               ELSE MatchClockAt(s, WsRunEnd(s, a + 3) + 1)

\* TIMESTAMP_LINE_REGEX.test(line): the pattern occurs somewhere in the line.
TimestampLineTest(line) == \E i \in 1..Len(line) : MatchTimestampAt(line, i) # 0

\* Array.prototype.findIndex, 1-based; 0 when no element satisfies P.
FindIndex(P(_), s) ==
    LET hits == {i \in 1..Len(s) : P(s[i])}
    IN IF hits = {} THEN 0 ELSE SetMin(hits)

HasContent(line) == Trim(line) # <<>>

\* The lines of the text region with leading and trailing blank lines dropped,
\* joined with "\n"; contentLines are the indexes of the lines with content.
BoundedText(textLines, contentLines) ==
    IF contentLines = {} THEN <<>>
    ELSE JoinWith(SubSeq(textLines, SetMin(contentLines), SetMax(contentLines)),
                  <<"\n">>)

SegmentText(textLines) ==
    BoundedText(textLines, {i \in 1..Len(textLines) : HasContent(textLines[i])})

\* The first element of lines that is not empty, "" when there is none.
FirstNonEmpty(lines, candidates) ==
    IF candidates = {} THEN <<>> ELSE lines[SetMin(candidates)]

\* The id of a block whose timestamp line is at timestampIndex (1-based, 0
\* when the block has none): parsed from the first non-empty line before it.
SegmentId(normalizedLines, timestampIndex) ==
    IF timestampIndex > 1
    THEN ParseInt(FirstNonEmpty(normalizedLines,
                                {i \in 1..(timestampIndex - 1) :
                                    normalizedLines[i] # <<>>}))
    ELSE NaN

SegmentAt(rawLines, normalizedLines, timestampIndex) ==
    [id |-> SegmentId(normalizedLines, timestampIndex),
     timestamp |-> Trim(IF timestampIndex >= 1 THEN normalizedLines[timestampIndex]
                        ELSE <<>>),
     text |-> SegmentText(MapSeq(TrimEnd,
                                 IF timestampIndex >= 1
                                 THEN SubSeq(rawLines, timestampIndex + 1,
                                             Len(rawLines))
                                 ELSE rawLines))]

SegmentOfLines(rawLines, normalizedLines) ==
    SegmentAt(rawLines, normalizedLines,
              FindIndex(TimestampLineTest, normalizedLines))

SegmentOfRawLines(rawLines) == SegmentOfLines(rawLines, MapSeq(Trim, rawLines))

\* parseSegment(text): id, timestamp and text of one block.
parseSegment(text) == SegmentOfRawLines(SplitLines(text))

\* /\s*-->\s*/ at position i: the arrow with the whitespace around it.
MatchArrow(s, i) ==
    LET a == WsRunEnd(s, i) + 1
    IN IF HasAt(s, a, <<"-", "-", ">">>) THEN WsRunEnd(s, a + 3) ELSE 0

TimestampParts(parts) ==
    [start |-> IF Len(parts) >= 1 THEN parts[1] ELSE <<>>,
     end |-> IF Len(parts) >= 2 THEN parts[2] ELSE <<>>]

\* parseTimestamp(timestamps): start and end of a timestamp line.
parseTimestamp(timestamps) ==
    TimestampParts(MapSeq(Trim, SplitRegex(MatchArrow, timestamps)))

(***************************************************************************)
(* Token-budget batcher (lib/srt).                                         *)
(***************************************************************************)

DEFAULT_CHARS_PER_TOKEN == 4

DELIMITER_TOKEN_COST == 1

Max2(a, b) == IF a >= b THEN a ELSE b

Min2(a, b) == IF a <= b THEN a ELSE b

\* Math.ceil(n / d) for n >= 0, d > 0
CeilDiv(n, d) == (n + d - 1) \div d

\* estimateTokenCount(text)
estimateTokenCount(text) == Max2(1, CeilDiv(Len(text), DEFAULT_CHARS_PER_TOKEN))

\* The loop body without its budget tests: every segment joins the current group.
GroupStepUnbounded(st, segment, maxTokensPerGroup) ==
    [groups |-> st.groups,
     currentGroup |-> Append(st.currentGroup, segment),
     currentGroupTokenCount |-> st.currentGroupTokenCount + 1]

\* An iteration that never appends to the group under construction.
GroupStepNeverAppends(st, segment, maxTokensPerGroup) ==
    [groups |-> IF Len(st.currentGroup) > 0
                THEN Append(st.groups, st.currentGroup)
                ELSE st.groups,
     currentGroup |-> <<segment>>,
     currentGroupTokenCount |-> estimateTokenCount(segment.text)]

\* An iteration that pushes a large segment together with the group under
\* construction.
GroupStepMergesLarge(st, segment, maxTokensPerGroup) ==
    LET segmentTokenCount == estimateTokenCount(segment.text)
        projectedTokenCount ==
            IF st.currentGroupTokenCount = 0 THEN segmentTokenCount
            ELSE st.currentGroupTokenCount + DELIMITER_TOKEN_COST + segmentTokenCount
        flushed == IF Len(st.currentGroup) > 0
                   THEN Append(st.groups, st.currentGroup)
                   ELSE st.groups
    IN IF segmentTokenCount >= maxTokensPerGroup
       THEN [groups |-> Append(st.groups, Append(st.currentGroup, segment)),
             currentGroup |-> <<>>,
             currentGroupTokenCount |-> 0]
       ELSE IF projectedTokenCount <= maxTokensPerGroup
       THEN [groups |-> st.groups,
             currentGroup |-> Append(st.currentGroup, segment),
             currentGroupTokenCount |-> projectedTokenCount]
       ELSE [groups |-> flushed,
             currentGroup |-> <<segment>>,
             currentGroupTokenCount |-> segmentTokenCount]

\* One iteration of the for loop of groupSegmentsByTokenLength; st holds the
\* locals groups, currentGroup and currentGroupTokenCount.
GroupStep(st, segment, maxTokensPerGroup) ==
    LET segmentTokenCount == estimateTokenCount(segment.text)
        projectedTokenCount ==
            IF st.currentGroupTokenCount = 0 THEN segmentTokenCount
            ELSE st.currentGroupTokenCount + DELIMITER_TOKEN_COST + segmentTokenCount
        flushed == IF Len(st.currentGroup) > 0
                   THEN Append(st.groups, st.currentGroup)
                   ELSE st.groups
    IN IF segmentTokenCount >= maxTokensPerGroup
       THEN [groups |-> Append(flushed, <<segment>>),
             currentGroup |-> IF Len(st.currentGroup) > 0 THEN <<>> ELSE st.currentGroup,
             currentGroupTokenCount |->
                 IF Len(st.currentGroup) > 0 THEN 0 ELSE st.currentGroupTokenCount]
       ELSE IF projectedTokenCount <= maxTokensPerGroup
       THEN [groups |-> st.groups,
             currentGroup |-> Append(st.currentGroup, segment),
             currentGroupTokenCount |-> projectedTokenCount]
       ELSE [groups |-> flushed,
             currentGroup |-> <<segment>>,
             currentGroupTokenCount |-> segmentTokenCount]

RECURSIVE GroupLoop(_, _, _)
GroupLoop(st, segments, maxTokensPerGroup) ==
    IF segments = <<>> THEN st
    ELSE GroupLoop(GroupStep(st, Head(segments), maxTokensPerGroup),
                   Tail(segments), maxTokensPerGroup)

\* The end of groupSegmentsByTokenLength without the flush of the last group.
FlushGroupsNever(st) == st.groups

\* The flush after the loop of groupSegmentsByTokenLength.
FlushGroups(st) ==
    IF Len(st.currentGroup) > 0 THEN Append(st.groups, st.currentGroup)
    ELSE st.groups

\* groupSegmentsByTokenLength(segments, length)
groupSegmentsByTokenLength(segments, length) ==
    FlushGroups(GroupLoop([groups |-> <<>>, currentGroup |-> <<>>,
                           currentGroupTokenCount |-> 0],
                          segments, Max2(1, length)))

(***************************************************************************)
(* Client-side document handling (app/page.tsx).                           *)
(***************************************************************************)

\* serializeSegment(segment)
serializeSegment(segment) ==
    NumberToString(segment.id) \o <<"\n">> \o segment.timestamp \o <<"\n">>
        \o segment.text

IsNonEmpty(s) == s # <<>>

\* content.split(SEGMENT_BLOCK_SPLIT_REGEX).map(trim).filter(Boolean); the
\* alphabet of the model has no byte-order mark for splitSrtBlocks to remove.
SplitTrimmedBlocks(content) ==
    FilterSeq(IsNonEmpty, MapSeq(Trim, SplitRegex(MatchBlockSeparator, content)))

\* splitSrtBlocks(content)
splitSrtBlocks(content) == SplitTrimmedBlocks(content)

\* normalizeSegmentIds(segments)
normalizeSegmentIds(segments) ==
    [index \in 1..Len(segments) |->
        [segments[index] EXCEPT
            !.id = IF IsFinite(segments[index].id) /\ segments[index].id > 0
                   THEN segments[index].id
                   ELSE index]]

\* requestGroup.map(serializeSegment).join("\n\n")
RequestContent(requestGroup) ==
    JoinWith(MapSeq(serializeSegment, requestGroup), <<"\n", "\n">>)

(***************************************************************************)
(* Server-side translation route (app/api/route.ts).                       *)
(***************************************************************************)

TRANSLATION_DELIMITER ==
    <<"|", "|", "|", "S", "R", "T", "_", "S", "E", "G", "M", "E", "N", "T",
      "|", "|", "|">>

\* TRANSLATION_DELIMITER.replace(/^\|+|\|+$/g, "")
TRANSLATION_DELIMITER_CORE ==
    LET inner == {i \in 1..Len(TRANSLATION_DELIMITER) : TRANSLATION_DELIMITER[i] # "|"}
    IN SubSeq(TRANSLATION_DELIMITER, SetMin(inner), SetMax(inner))

\* The quotation marks of the permissive delimiter pattern that the model's
\* alphabet has.
QuoteChars == {"\"", "'"}

\* \|{3}\s*SRT_SEGMENT\s*\|{3}["']? at position i: its end position, or 0.
MatchDelimiterBody(s, i) ==
    IF ~HasAt(s, i, <<"|", "|", "|">>) THEN 0
    ELSE LET c == WsRunEnd(s, i + 3) + 1
         IN IF ~HasAt(s, c, TRANSLATION_DELIMITER_CORE) THEN 0
            ELSE LET b == WsRunEnd(s, c + Len(TRANSLATION_DELIMITER_CORE)) + 1
                 IN IF ~HasAt(s, b, <<"|", "|", "|">>) THEN 0
                    ELSE IF b + 3 <= Len(s) /\ s[b + 3] \in QuoteChars THEN b + 3
                    ELSE b + 2

\* The permissiveDelimiter pattern at position i: its end position, or 0.
MatchPermissiveDelimiter(s, i) ==
    IF s[i] \in QuoteChars /\ MatchDelimiterBody(s, i + 1) # 0
    THEN MatchDelimiterBody(s, i + 1)
    ELSE MatchDelimiterBody(s, i)

\* String.prototype.replace(regexp with the g flag, replacement)
RECURSIVE ReplaceFrom(_, _, _, _)
ReplaceFrom(M(_, _), s, replacement, i) ==
    LET starts == {j \in i..Len(s) : M(s, j) # 0}
    IN IF starts = {} THEN SubSeq(s, i, Len(s))
       ELSE SubSeq(s, i, SetMin(starts) - 1) \o replacement
            \o ReplaceFrom(M, s, replacement, M(s, SetMin(starts)) + 1)

ReplaceRegex(M(_, _), s, replacement) == ReplaceFrom(M, s, replacement, 1)

\* /\r\n/ at position i.
MatchCrLf(s, i) == IF HasAt(s, i, <<"\r", "\n">>) THEN i + 1 ELSE 0

\* The literal TRANSLATION_DELIMITER at position i.
MatchDelimiter(s, i) ==
    IF HasAt(s, i, TRANSLATION_DELIMITER) THEN i + Len(TRANSLATION_DELIMITER) - 1
    ELSE 0

\* splitTranslatedSegments(rawText)
splitTranslatedSegments(rawText) ==
    LET normalizedText == Trim(ReplaceRegex(MatchCrLf, rawText, <<"\n">>))
        delimiterNormalizedText ==
            ReplaceRegex(MatchPermissiveDelimiter, normalizedText,
                         TRANSLATION_DELIMITER)
    IN MapSeq(Trim, SplitRegex(MatchDelimiter, delimiterNormalizedText))

\* The segments the POST handler reads from the request content.
RequestSegments(content) ==
    normalizeSegmentIds(MapSeq(parseSegment, SplitTrimmedBlocks(content)))

\* group.map((segment) => segment.text).join(TRANSLATION_DELIMITER)
GroupPayload(group) ==
    JoinWith([i \in 1..Len(group) |-> group[i].text], TRANSLATION_DELIMITER)

\* The block the POST handler enqueues for one translated piece.
OutputBlock(originalSegment, segment) ==
    NumberToString(originalSegment.id) \o <<"\n">> \o originalSegment.timestamp
        \o <<"\n">> \o Trim(segment) \o <<"\n", "\n">>

(***************************************************************************)
(* Program constants.                                                      *)
(***************************************************************************)

MAX_RETRIES == 3

MAX_BATCH_RETRIES == 5

RETRIABLE_STATUS_CODES == {408, 425, 429, 500, 502, 503, 504}

\* A retry policy that retries server errors only.
isServerErrorStatus(s) == s >= 500

\* isRetriableStatus(status)
isRetriableStatus(s) == s \in RETRIABLE_STATUS_CODES

EMPTY_PROGRESS ==
    [totalSegments |-> 0, translatedSegments |-> 0, totalRequests |-> 0,
     completedRequests |-> 0, activeRequest |-> 0]

(***************************************************************************)
(* Bounds of the model and the inputs drawn within them.                   *)
(***************************************************************************)

\* Largest number of blocks in a submitted document.
MaxDocBlocks == 2

\* The per-request token budget of the modelled deployment.  It is scaled
\* down with the texts of the model so that a few characters fill a batch.
RunTokenLimit == 3

\* Largest number of fetches of a Run whose response is lost on the way back
\* to the client although the server accepted the request.
MaxLostResponses == 1

Clock1 == <<"0", "0", ":", "0", "0", ":", "0", "1", ",", "0", "0", "0">>

Clock2 == <<"0", "0", ":", "0", "0", ":", "0", "2", ".", "5", "0", "0">>

Arrow == <<" ", "-", "-", ">", " ">>

Timestamp1 == Clock1 \o Arrow \o Clock2

Timestamp2 == Clock2 \o <<"-", "-", ">">> \o Clock1

\* The blocks documents are made of: a plain cue, a cue with two text lines,
\* a cue without an id line whose text starts with a space, and a block with
\* no timestamp line.
DocBlocks ==
    << <<"1", "\n">> \o Timestamp1 \o <<"\n", "H", "i">>,
       <<"2", "\n">> \o Timestamp2
           \o <<"\n", "G", "o", "o", "d", " ", "d", "a", "y", "\n", "s", "i", "r">>,
       Timestamp1 \o <<"\n", " ", "Y", "o">>,
       <<"n", "o", "t", "e">> >>

RECURSIVE SeqsUpTo(_, _)
SeqsUpTo(S, n) ==
    IF n = 0 THEN {<<>>}
    ELSE LET shorter == SeqsUpTo(S, n - 1)
         IN shorter \cup {Append(q, x) : q \in shorter, x \in S}

\* The documents a Run is submitted with.
\* A document of whitespace only: it has content and no block.
BlankDocument == <<" ", "\n">>

Documents ==
    {JoinWith([i \in 1..Len(q) |-> DocBlocks[q[i]]], <<"\n", "\n">>) :
        q \in SeqsUpTo(1..Len(DocBlocks), MaxDocBlocks) \ {<<>>}}
        \cup {BlankDocument}

\* Statuses that the platform in front of the route (gateway, edge gate) can
\* answer with instead of the route.
GatewayStatuses == {401, 404, 408, 425, 429, 502, 503, 504}

(***************************************************************************)
(* State.                                                                  *)
(***************************************************************************)

VARIABLES
    content,                \* the document handleSubmit was called with
    maxTokensPerTranslationRequest, \* resolved batch-token configuration
    serverEnv,              \* "ok", "nokey" or "badconfig": the route's environment
    status,                 \* React state status
    startedAt,              \* React state startedAt: "null", or "set" to a time
    progress,               \* React state progress
    translatedChunks,       \* React state translatedChunks
    cpc,                    \* where handleSubmit is suspended
    originalSegments,       \* handleSubmit local
    requestGroups,          \* handleSubmit local
    requestIndex,           \* handleSubmit loop variable (0-based)
    translatedContent,      \* handleSubmit local
    translatedSegmentCount, \* handleSubmit local
    attempt,                \* requestTranslationBatch loop variable
    lastError,              \* requestTranslationBatch local: <<>> for null,
                            \* <<"network">> or <<"status", s>> after a failed attempt
    fetches,                \* fetch calls made by this requestTranslationBatch call
    waits,                  \* backoff sleeps made by this requestTranslationBatch call
    stream,                 \* handleStream locals content, translatedSegmentCount, pending
    downloads,              \* contents handed to triggerFileDownload
    runResult,              \* how handleSubmit ended ("" while it has not)
    srv,                    \* the route invocation whose response the client holds
    orphans,                \* route invocations whose response was lost
    lost,                   \* number of lost responses so far
    streamQueue,            \* bytes enqueued on the response stream, not yet read
    emitted,                \* history: blocks enqueued by the connected invocations
    fnInput,                \* input of the function under test (function specs)
    fnOutput                \* its result, once applied

configVars == <<content, maxTokensPerTranslationRequest, serverEnv>>

uiVars == <<status, startedAt, progress, translatedChunks>>

submitVars == <<originalSegments, requestGroups, requestIndex, translatedContent,
                translatedSegmentCount>>

batchVars == <<attempt, lastError, fetches, waits>>

serverVars == <<srv, orphans, lost, streamQueue, emitted>>

fnVars == <<fnInput, fnOutput>>

vars == <<configVars, uiVars, cpc, submitVars, batchVars, stream, downloads,
          runResult, serverVars, fnVars>>

\* A route invocation that is not running.  errors holds the errors caught by
\* the current call of retrieveTranslation, one per failed attempt; returns
\* holds the lists retrieveTranslation has returned to start(), one per group.
\* abortController is the controller of the current attempt, timers the
\* controllers that an armed deadline timer will abort, and aborted the
\* controllers still referenced whose signal is aborted.
NoHandler ==
    [pc |-> "none", requestNumber |-> 0, segments |-> <<>>, groups |-> <<>>,
     groupIndex |-> 0, attempt |-> 0, calls |-> 0, sleeps |-> 0,
     abortController |-> <<0, 0>>, timers |-> {}, aborted |-> {},
     currentIndex |-> 0, errors |-> <<>>, returns |-> <<>>, thrown |-> ""]

EmptyStream == [content |-> <<>>, translatedSegmentCount |-> 0, pending |-> <<>>]

ClientIdle ==
    /\ status = "idle"
    /\ startedAt = "null"
    /\ progress = EMPTY_PROGRESS
    /\ translatedChunks = <<>>
    /\ cpc = "start"
    /\ originalSegments = <<>>
    /\ requestGroups = <<>>
    /\ requestIndex = 0
    /\ translatedContent = <<>>
    /\ translatedSegmentCount = 0
    /\ attempt = 0
    /\ lastError = <<>>
    /\ fetches = 0
    /\ waits = 0
    /\ stream = EmptyStream
    /\ downloads = <<>>
    /\ runResult = ""

ServerIdle ==
    /\ srv = NoHandler
    /\ orphans = <<>>
    /\ lost = 0
    /\ streamQueue = <<>>
    /\ emitted = <<>>

\* The page is loaded, the configuration is resolved and a document is about
\* to be submitted.
Init ==
    /\ content \in Documents
    /\ maxTokensPerTranslationRequest = RunTokenLimit
    /\ serverEnv \in {"ok", "nokey", "badconfig"}
    /\ ClientIdle
    /\ ServerIdle
    /\ fnInput = <<>>
    /\ fnOutput = <<>>

(***************************************************************************)
(* handleSubmit, requestTranslationBatch and handleStream (app/page.tsx).  *)
(***************************************************************************)

\* A catch block that resets the counters and leaves the status as it is.
FailRunStaysBusy(reason) ==
    /\ status' = status
    /\ startedAt' = "null"
    /\ progress' = EMPTY_PROGRESS
    /\ cpc' = "end"
    /\ runResult' = reason

\* A catch block without its call of resetRunState.
FailRunKeepsRunState(reason) ==
    /\ status' = "idle"
    /\ UNCHANGED <<startedAt, progress>>
    /\ cpc' = "end"
    /\ runResult' = reason

\* The catch block of handleSubmit: setStatus("idle"), resetRunState(), alert.
FailRun(reason) ==
    /\ status' = "idle"
    /\ startedAt' = "null"
    /\ progress' = EMPTY_PROGRESS
    /\ cpc' = "end"
    /\ runResult' = reason

\* An iteration that shows the 0-based index as the active request.
StartBatchZeroBased(index, prog) ==
    /\ requestIndex' = index
    /\ progress' = [prog EXCEPT !.activeRequest = index]
    /\ attempt' = 1
    /\ lastError' = <<>>
    /\ fetches' = 1
    /\ waits' = 0
    /\ cpc' = "fetch"

\* The head of one iteration of the loop over requestGroups, up to the first
\* fetch of requestTranslationBatch.
StartBatch(index, prog) ==
    /\ requestIndex' = index
    /\ progress' = [prog EXCEPT !.activeRequest = index + 1]
    /\ attempt' = 1
    /\ lastError' = <<>>
    /\ fetches' = 1
    /\ waits' = 0
    /\ cpc' = "fetch"

\* handleSubmit from its call to the first await.
Submit ==
    /\ cpc = "start"
    /\ LET segments == splitSrtBlocks(content)
           parsed == normalizeSegmentIds(MapSeq(parseSegment, segments))
           groups == groupSegmentsByTokenLength(parsed, maxTokensPerTranslationRequest)
       IN IF content = <<>>
          THEN /\ cpc' = "end"
               /\ runResult' = "nocontent"
               /\ UNCHANGED <<uiVars, submitVars, batchVars>>
          ELSE IF segments = <<>> \/ parsed = <<>>
          THEN /\ status' = "idle"
               /\ startedAt' = "null"
               /\ progress' = EMPTY_PROGRESS
               /\ translatedChunks' = <<>>
               /\ cpc' = "end"
               /\ runResult' = IF segments = <<>> THEN "noblocks" ELSE "parse"
               /\ UNCHANGED <<submitVars, batchVars>>
          ELSE /\ status' = "busy"
               /\ startedAt' = "set"
               /\ translatedChunks' = <<>>
               /\ originalSegments' = parsed
               /\ requestGroups' = groups
               /\ translatedContent' = <<>>
               /\ translatedSegmentCount' = 0
               /\ runResult' = ""
               /\ StartBatch(0, [totalSegments |-> Len(parsed),
                                 translatedSegments |-> 0,
                                 totalRequests |-> Len(groups),
                                 completedRequests |-> 0,
                                 activeRequest |-> IF Len(groups) > 0 THEN 1 ELSE 0])
    /\ UNCHANGED <<configVars, stream, downloads, serverVars, fnVars>>

\* The request the client is sending: content and x-translation-request-number.
CurrentRequestContent == RequestContent(requestGroups[requestIndex + 1])

\* requestTranslationBatch retrying once more than MAX_BATCH_RETRIES allows.
RetryOrThrowOnceMore(retriable) ==
    IF ~retriable \/ attempt > MAX_BATCH_RETRIES
    THEN /\ FailRun("fetch")
         /\ UNCHANGED waits
    ELSE /\ cpc' = "backoff"
         /\ waits' = waits + 1
         /\ UNCHANGED <<status, startedAt, progress, runResult>>

\* requestTranslationBatch after a failed attempt: throw when the failure is
\* final, otherwise sleep before the next attempt.
RetryOrThrow(retriable) ==
    IF ~retriable \/ attempt = MAX_BATCH_RETRIES
    THEN /\ FailRun("fetch")
         /\ UNCHANGED waits
    ELSE /\ cpc' = "backoff"
         /\ waits' = waits + 1
         /\ UNCHANGED <<status, startedAt, progress, runResult>>

\* fetch rejects: the request never reached the route.
FetchRejects ==
    /\ cpc = "fetch"
    /\ lastError' = <<"network">>
    /\ RetryOrThrow(TRUE)
    /\ UNCHANGED <<configVars, translatedChunks, submitVars, attempt, fetches, stream,
                   downloads, serverVars, fnVars>>

\* The client got a response that is not ok.
ReceiveErrorStatus(s) ==
    /\ lastError' = <<"status", s>>
    /\ RetryOrThrow(isRetriableStatus(s))

\* The platform in front of the route answers with an error status.
FetchGatewayStatus ==
    /\ cpc = "fetch"
    /\ \E s \in GatewayStatuses : ReceiveErrorStatus(s)
    /\ UNCHANGED <<configVars, translatedChunks, submitVars, attempt, fetches,
                   stream, downloads, serverVars, fnVars>>

\* await sleep(retryDelayMs) is over: the next attempt fetches.
BackoffDone ==
    /\ cpc = "backoff"
    /\ attempt' = attempt + 1
    /\ fetches' = fetches + 1
    /\ cpc' = "fetch"
    /\ UNCHANGED <<configVars, uiVars, submitVars, lastError, waits, stream, downloads,
                   runResult, serverVars, fnVars>>

(***************************************************************************)
(* The route: POST and retrieveTranslation (app/api/route.ts).             *)
(***************************************************************************)

\* POST without its checks of the key and of the runtime configuration.
RouteStatusSkipsConfiguration(requestContent) ==
    IF Trim(requestContent) = <<>> THEN 400
    ELSE IF RequestSegments(requestContent) = <<>> THEN 400
    ELSE 200

\* The status POST answers with, decided before any backend call.
RouteStatus(requestContent) ==
    IF serverEnv # "ok" THEN 500
    ELSE IF Trim(requestContent) = <<>> THEN 400
    ELSE IF RequestSegments(requestContent) = <<>> THEN 400
    ELSE 200

\* One controller for every attempt of every call of retrieveTranslation.
ControllerShared(groupIndex, attemptNumber) == <<0, 0>>

\* new AbortController() at the head of an iteration: a controller of the
\* attempt's own, named by the group and the attempt.
ControllerOf(groupIndex, attemptNumber) == <<groupIndex, attemptNumber>>

\* The head of an iteration of retrieveTranslation: the attempt gets its
\* controller and arms the timer that aborts it.  The controllers of earlier
\* iterations are no longer referenced.
ArmDeadline(h, groupIndex, attemptNumber) ==
    [h EXCEPT !.abortController = ControllerOf(groupIndex, attemptNumber),
              !.timers = @ \cup {ControllerOf(groupIndex, attemptNumber)},
              !.aborted = @ \cap {ControllerOf(groupIndex, attemptNumber)}]

\* finally { clearTimeout(timeoutId) }: the timer of the iteration is cleared.
ClearDeadline(h) == [h EXCEPT !.timers = @ \ {h.abortController}]

\* The callback of the timer that aborts controller: the timer is spent and
\* the controller's signal is aborted.
DeadlineFires(h, controller) ==
    [h EXCEPT !.timers = @ \ {controller}, !.aborted = @ \cup {controller}]

\* A first attempt of retrieveTranslation for the group at groupIndex.
BeginGroup(h, groupIndex) ==
    ArmDeadline([h EXCEPT !.pc = "call", !.groupIndex = groupIndex, !.attempt = 1,
                          !.calls = 1, !.sleeps = 0, !.errors = <<>>],
                groupIndex, 1)

\* POST accepted the request: segments and groups are computed, the response
\* stream is created and its start() runs up to the first backend call.
NewHandler(requestContent, requestNumber) ==
    LET segments == RequestSegments(requestContent)
        groups == groupSegmentsByTokenLength(segments, maxTokensPerTranslationRequest)
    IN BeginGroup([NoHandler EXCEPT !.requestNumber = requestNumber,
                                    !.segments = segments,
                                    !.groups = groups],
                  0)

\* The group whose translation h is waiting for.
CurrentGroup(h) == h.groups[h.groupIndex + 1]

\* Texts the backend can answer a payload of these texts with: the texts
\* unchanged, one piece too few, one piece too many, and the right number of
\* delimiters with nothing after the last one.
BackendResponses(texts) ==
    LET n == Len(texts)
        allButLast == JoinWith(SubSeq(texts, 1, n - 1), TRANSLATION_DELIMITER)
    IN {JoinWith(texts, TRANSLATION_DELIMITER),
        allButLast,
        JoinWith(texts, TRANSLATION_DELIMITER) \o TRANSLATION_DELIMITER \o <<"x">>,
        IF n = 1 THEN <<>> ELSE allButLast \o TRANSLATION_DELIMITER}

GroupTexts(group) == [i \in 1..Len(group) |-> group[i].text]

\* The catch block closing the stream when the attempts are exhausted.
CatchErrorClosesStream(h, error) ==
    IF h.attempt < MAX_RETRIES
    THEN [h EXCEPT !.pc = "sleep", !.sleeps = @ + 1]
    ELSE ClearDeadline([h EXCEPT !.pc = "closed"])

\* The catch block retrying without its sleep.
CatchErrorRetriesAtOnce(h, error) ==
    IF h.attempt < MAX_RETRIES
    THEN [h EXCEPT !.pc = "sleep"]
    ELSE ClearDeadline([h EXCEPT !.pc = "errored", !.thrown = error])

\* The catch block giving up one attempt early.
CatchErrorGivesUpEarly(h, error) ==
    IF h.attempt < MAX_RETRIES - 1
    THEN [h EXCEPT !.pc = "sleep", !.sleeps = @ + 1]
    ELSE ClearDeadline([h EXCEPT !.pc = "errored", !.thrown = error])

\* The catch block of retrieveTranslation with the attempt's error caught.
CatchError(h, error) ==
    IF h.attempt < MAX_RETRIES
    THEN [h EXCEPT !.pc = "sleep", !.sleeps = @ + 1]
    ELSE ClearDeadline([h EXCEPT !.pc = "errored", !.thrown = error])

\* An attempt of retrieveTranslation fails: its error is caught, and the
\* catch block sleeps and retries while attempts remain, otherwise rethrows,
\* which errors the response stream.
AttemptFailed(h, kind) == CatchError([h EXCEPT !.errors = Append(@, kind)], kind)

\* The blocks POST enqueues for the pieces retrieveTranslation returned: the
\* running index pairs each piece with a segment of the flat list, and a
\* piece without one is skipped.
RECURSIVE EmitPieces(_, _, _)
EmitPieces(segments, currentIndex, pieces) ==
    IF pieces = <<>> THEN <<>>
    ELSE IF currentIndex + 1 > Len(segments)
    THEN EmitPieces(segments, currentIndex + 1, Tail(pieces))
    ELSE <<[id |-> segments[currentIndex + 1].id,
            timestamp |-> segments[currentIndex + 1].timestamp,
            text |-> Trim(Head(pieces)),
            bytes |-> OutputBlock(segments[currentIndex + 1], Head(pieces))]>>
         \o EmitPieces(segments, currentIndex + 1, Tail(pieces))

\* start() with a running index that starts again at every group.
GroupDoneRestartsIndex(h, pieces) ==
    LET advanced == ClearDeadline([h EXCEPT !.currentIndex = 0,
                                            !.returns = Append(@, pieces)])
    IN IF h.groupIndex + 1 < Len(h.groups)
       THEN BeginGroup(advanced, h.groupIndex + 1)
       ELSE [advanced EXCEPT !.pc = "closed", !.attempt = 0, !.calls = 0,
                             !.sleeps = 0, !.errors = <<>>, !.aborted = {}]

\* retrieveTranslation returned: the pieces are emitted and the loop of
\* start() goes on to the next group, or closes the stream.
GroupDone(h, pieces) ==
    LET advanced == ClearDeadline([h EXCEPT !.currentIndex = @ + Len(pieces),
                                            !.returns = Append(@, pieces)])
    IN IF h.groupIndex + 1 < Len(h.groups)
       THEN BeginGroup(advanced, h.groupIndex + 1)
       ELSE [advanced EXCEPT !.pc = "closed", !.attempt = 0, !.calls = 0,
                             !.sleeps = 0, !.errors = <<>>, !.aborted = {}]

\* retrieveTranslation without its shape check.
ShapeAcceptedAlways(translatedSegments, expectedSegments) == TRUE

\* The shape check of retrieveTranslation on the pieces of a response.
ShapeAccepted(translatedSegments, expectedSegments) ==
    Len(translatedSegments) = expectedSegments

BlockBytes(blocks) == Concat([i \in 1..Len(blocks) |-> blocks[i].bytes])

BlockRecords(blocks) ==
    [i \in 1..Len(blocks) |->
        [id |-> blocks[i].id, timestamp |-> blocks[i].timestamp,
         text |-> blocks[i].text]]

\* The connected invocation's backend call returns text.
BackendReturns ==
    /\ srv.pc = "call"
    /\ \E rawText \in BackendResponses(GroupTexts(CurrentGroup(srv))) :
          LET pieces == splitTranslatedSegments(rawText)
              blocks == EmitPieces(srv.segments, srv.currentIndex, pieces)
          IN IF ShapeAccepted(pieces, Len(CurrentGroup(srv)))
             THEN /\ srv' = GroupDone(srv, pieces)
                  /\ streamQueue' = streamQueue \o BlockBytes(blocks)
                  /\ emitted' = emitted \o BlockRecords(blocks)
             ELSE /\ srv' = AttemptFailed(srv, "shape")
                  /\ UNCHANGED <<streamQueue, emitted>>
    /\ UNCHANGED <<configVars, uiVars, cpc, submitVars, batchVars, stream, downloads,
                   runResult, orphans, lost, fnVars>>

\* The connected invocation's backend call fails: generateText rejects.
BackendFails ==
    /\ srv.pc = "call"
    /\ srv' = AttemptFailed(srv, "backend")
    /\ UNCHANGED <<configVars, uiVars, cpc, submitVars, batchVars, stream, downloads,
                   runResult, orphans, lost, streamQueue, emitted, fnVars>>

\* The call in flight after an armed timer of h has fired on controller:
\* generateText rejects when the signal it was given is aborted, and is left
\* alone by the abort of any other controller.
AbortReaches(h, controller) ==
    LET fired == DeadlineFires(h, controller)
    IN IF h.abortController \in fired.aborted THEN AttemptFailed(fired, "timeout")
       ELSE fired

\* A deadline fires while a call is in flight: the abort signal makes
\* generateText reject.
BackendTimesOut ==
    /\ srv.pc = "call"
    /\ \E controller \in srv.timers : srv' = AbortReaches(srv, controller)
    /\ UNCHANGED <<configVars, uiVars, cpc, submitVars, batchVars, stream, downloads,
                   runResult, orphans, lost, streamQueue, emitted, fnVars>>

\* A deadline fires during await sleep(1000), after the attempt that armed
\* it has failed and before finally clears it: the controller of the failed
\* attempt is aborted and nothing waits on its signal.
DeadlineFiresDuringSleep ==
    /\ srv.pc = "sleep"
    /\ \E controller \in srv.timers : srv' = DeadlineFires(srv, controller)
    /\ UNCHANGED <<configVars, uiVars, cpc, submitVars, batchVars, stream, downloads,
                   runResult, orphans, lost, streamQueue, emitted, fnVars>>

\* await sleep(1000) is over: finally clears the timer and the next attempt
\* arms its own and calls the backend.
NextAttempt(h) ==
    ArmDeadline([ClearDeadline(h) EXCEPT !.pc = "call", !.attempt = @ + 1,
                                         !.calls = @ + 1],
                h.groupIndex, h.attempt + 1)

ServerRetry ==
    /\ srv.pc = "sleep"
    /\ srv' = NextAttempt(srv)
    /\ UNCHANGED <<configVars, uiVars, cpc, submitVars, batchVars, stream, downloads,
                   runResult, orphans, lost, streamQueue, emitted, fnVars>>

\* Route invocations whose response never reached the client run on: the
\* route does not observe the client.
RemoveAt(q, k) == SubSeq(q, 1, k - 1) \o SubSeq(q, k + 1, Len(q))

\* An invocation that has closed or errored its stream has returned.  The
\* histories errors, returns and aborted are kept for the connected
\* invocation only.
SettleOrphan(k, h) ==
    IF h.pc \in {"closed", "errored"} THEN RemoveAt(orphans, k)
    ELSE [orphans EXCEPT ![k] = [h EXCEPT !.errors = <<>>, !.returns = <<>>,
                                          !.aborted = {}]]

\* An orphaned invocation's backend call returns text; its blocks go to a
\* stream nobody reads, and enqueueing on it may throw once the platform
\* has cancelled it.
OrphanBackendReturns ==
    /\ \E k \in 1..Len(orphans) :
          /\ orphans[k].pc = "call"
          /\ \E rawText \in BackendResponses(GroupTexts(CurrentGroup(orphans[k]))),
                cancelled \in BOOLEAN :
                LET pieces == splitTranslatedSegments(rawText)
                IN orphans' =
                      IF ~ShapeAccepted(pieces, Len(CurrentGroup(orphans[k])))
                      THEN SettleOrphan(k, AttemptFailed(orphans[k], "shape"))
                      ELSE IF cancelled THEN RemoveAt(orphans, k)
                      ELSE SettleOrphan(k, GroupDone(orphans[k], pieces))
    /\ UNCHANGED <<configVars, uiVars, cpc, submitVars, batchVars, stream, downloads,
                   runResult, srv, lost, streamQueue, emitted, fnVars>>

\* An orphaned invocation's backend call rejects: generateText fails, or a
\* deadline fires.
OrphanBackendFails ==
    /\ \E k \in 1..Len(orphans) :
          /\ orphans[k].pc = "call"
          /\ \/ orphans' = SettleOrphan(k, AttemptFailed(orphans[k], "backend"))
             \/ \E controller \in orphans[k].timers :
                   orphans' = SettleOrphan(k, AbortReaches(orphans[k], controller))
    /\ UNCHANGED <<configVars, uiVars, cpc, submitVars, batchVars, stream, downloads,
                   runResult, srv, lost, streamQueue, emitted, fnVars>>

\* A deadline of an orphaned invocation fires during await sleep(1000).
OrphanDeadlineFiresDuringSleep ==
    /\ \E k \in 1..Len(orphans) :
          /\ orphans[k].pc = "sleep"
          /\ \E controller \in orphans[k].timers :
                orphans' = SettleOrphan(k, DeadlineFires(orphans[k], controller))
    /\ UNCHANGED <<configVars, uiVars, cpc, submitVars, batchVars, stream, downloads,
                   runResult, srv, lost, streamQueue, emitted, fnVars>>

OrphanRetry ==
    /\ \E k \in 1..Len(orphans) :
          /\ orphans[k].pc = "sleep"
          /\ orphans' = [orphans EXCEPT ![k] = NextAttempt(orphans[k])]
    /\ UNCHANGED <<configVars, uiVars, cpc, submitVars, batchVars, stream, downloads,
                   runResult, srv, lost, streamQueue, emitted, fnVars>>

\* requestTranslationBatch returns the response; its locals are gone.
ReturnResponse ==
    /\ attempt' = 0
    /\ lastError' = <<>>
    /\ fetches' = 0
    /\ waits' = 0

\* The route answers the fetch: an error status, or 200 with the response
\* stream, on which handleStream then awaits its first read.
FetchServed ==
    /\ cpc = "fetch"
    /\ LET s == RouteStatus(CurrentRequestContent)
       IN IF s = 200
          THEN /\ srv' = NewHandler(CurrentRequestContent, requestIndex + 1)
               /\ streamQueue' = <<>>
               /\ ReturnResponse
               /\ stream' = EmptyStream
               /\ cpc' = "read"
               /\ UNCHANGED <<status, startedAt, progress, runResult>>
          ELSE /\ ReceiveErrorStatus(s)
               /\ UNCHANGED <<srv, streamQueue, stream, attempt, fetches>>
    /\ UNCHANGED <<configVars, translatedChunks, submitVars, downloads, orphans,
                   lost, emitted, fnVars>>

\* The route accepted the request and started its backend work, but the
\* response is lost on the way back: fetch rejects with a network error.
FetchLost ==
    /\ cpc = "fetch"
    /\ lost < MaxLostResponses
    /\ RouteStatus(CurrentRequestContent) = 200
    /\ orphans' = Append(orphans, NewHandler(CurrentRequestContent, requestIndex + 1))
    /\ lost' = lost + 1
    /\ lastError' = <<"network">>
    /\ RetryOrThrow(TRUE)
    /\ UNCHANGED <<configVars, translatedChunks, submitVars, attempt, fetches, stream,
                   downloads, srv, streamQueue, emitted, fnVars>>

(***************************************************************************)
(* handleStream (app/page.tsx).                                            *)
(***************************************************************************)

ChunkOf(seg, count) ==
    [index |-> NumberToString(IF IsFinite(seg.id) /\ seg.id > 0 THEN seg.id
                              ELSE count),
     start |-> parseTimestamp(seg.timestamp).start,
     end |-> parseTimestamp(seg.timestamp).end,
     text |-> seg.text]

\* The chunk handleStream makes of one non-empty block; count is the value of
\* translatedSegmentCount after counting the block.
ParseChunk(normalizedBlock, count) == ChunkOf(parseSegment(normalizedBlock), count)

\* The loop of appendChunkToPreview over the complete blocks.
RECURSIVE ParseBlocks(_, _)
ParseBlocks(blocks, count) ==
    IF blocks = <<>> THEN <<>>
    ELSE IF Trim(Head(blocks)) = <<>> THEN ParseBlocks(Tail(blocks), count)
    ELSE <<ParseChunk(Trim(Head(blocks)), count + 1)>>
         \o ParseBlocks(Tail(blocks), count + 1)

\* appendChunkToPreview forgetting the incomplete last piece.
AppendParsedDropsPending(st, blocks, parsedChunks) ==
    [locals |-> [st EXCEPT !.pending = <<>>,
                           !.translatedSegmentCount = @ + Len(parsedChunks)],
     parsedChunks |-> parsedChunks]

AppendParsed(st, blocks, parsedChunks) ==
    [locals |-> [st EXCEPT !.pending = blocks[Len(blocks)],
                           !.translatedSegmentCount = @ + Len(parsedChunks)],
     parsedChunks |-> parsedChunks]

AppendBlocks(st, blocks) ==
    AppendParsed(st, blocks,
                 ParseBlocks(SubSeq(blocks, 1, Len(blocks) - 1),
                             st.translatedSegmentCount))

\* appendChunkToPreview(incomingText) on the locals st of handleStream: the new
\* locals and the chunks it appends to translatedChunks.
appendChunkToPreview(st, incomingText) ==
    AppendBlocks(st, SplitRegex(MatchBlankLine, incomingText))

\* handleSubmit without its per-batch test.
BatchCompleteAlways(batchSegmentCount, requestGroup) == TRUE

\* handleSubmit's test of a batch result against its request group.
BatchComplete(batchSegmentCount, requestGroup) ==
    batchSegmentCount = Len(requestGroup)

\* An onTranslatedSegment that counts every block twice.
CountTranslatedTwice(prog, n) ==
    [prog EXCEPT !.translatedSegments = Min2(prog.totalSegments, @ + 2 * n)]

\* onTranslatedSegment called n times.
CountTranslated(prog, n) ==
    [prog EXCEPT !.translatedSegments = Min2(prog.totalSegments, @ + n)]

\* The lengths of the fragments in which the queued bytes can arrive: all of
\* them, or all but the last one, which cuts a block separator in two.
FragmentCuts(queue) == {Len(queue)} \cup ({Len(queue) - 1} \ {0})

\* reader.read() resolves with a fragment of the response stream.
ClientRead ==
    /\ cpc = "read"
    /\ streamQueue # <<>>
    /\ \E k \in FragmentCuts(streamQueue) :
          LET chunk == SubSeq(streamQueue, 1, k)
              withContent == [stream EXCEPT !.content = @ \o chunk]
              r == appendChunkToPreview(withContent, stream.pending \o chunk)
          IN /\ streamQueue' = SubSeq(streamQueue, k + 1, Len(streamQueue))
             /\ stream' = r.locals
             /\ translatedChunks' = translatedChunks \o r.parsedChunks
             /\ progress' = CountTranslated(progress, Len(r.parsedChunks))
    /\ UNCHANGED <<configVars, status, startedAt, cpc, submitVars, batchVars, downloads,
                   runResult, srv, orphans, lost, emitted, fnVars>>

\* reader.read() resolves with done: handleStream flushes the trailing block
\* and returns, and handleSubmit runs on to its next await or to its end.
ClientReadDone ==
    /\ cpc = "read"
    /\ srv.pc = "closed"
    /\ streamQueue = <<>>
    /\ LET trailingBlock == Trim(stream.pending)
           count == IF trailingBlock # <<>> THEN stream.translatedSegmentCount + 1
                    ELSE stream.translatedSegmentCount
           chunks == IF trailingBlock # <<>>
                     THEN Append(translatedChunks, ParseChunk(trailingBlock, count))
                     ELSE translatedChunks
           counted == IF trailingBlock # <<>> THEN CountTranslated(progress, 1)
                      ELSE progress
           requestGroup == requestGroups[requestIndex + 1]
           completed == [counted EXCEPT
                            !.completedRequests =
                                Min2(counted.totalRequests, requestIndex + 1)]
           newCount == translatedSegmentCount + count
           newContent == translatedContent \o TrimEnd(stream.content) \o <<"\n", "\n">>
       IN /\ translatedChunks' = chunks
          /\ stream' = [stream EXCEPT !.translatedSegmentCount = count]
          /\ IF ~BatchComplete(count, requestGroup)
             THEN /\ FailRun("batchcount")
                  /\ UNCHANGED <<translatedSegmentCount, translatedContent, downloads>>
             ELSE /\ translatedSegmentCount' = newCount
                  /\ translatedContent' = newContent
                  /\ IF requestIndex < Len(requestGroups) - 1
                     THEN /\ cpc' = "pause"
                          /\ progress' = completed
                          /\ UNCHANGED <<status, startedAt, runResult, downloads>>
                     ELSE IF newCount # Len(originalSegments)
                     THEN /\ FailRun("totalcount")
                          /\ UNCHANGED downloads
                     ELSE IF Trim(newContent) # <<>>
                     THEN /\ progress' =
                                [completed EXCEPT
                                    !.translatedSegments = completed.totalSegments,
                                    !.completedRequests = completed.totalRequests,
                                    !.activeRequest = completed.totalRequests]
                          /\ startedAt' = "null"
                          /\ status' = "done"
                          /\ downloads' = Append(downloads, newContent)
                          /\ cpc' = "end"
                          /\ runResult' = "done"
                     ELSE /\ FailRun("emptyoutput")
                          /\ UNCHANGED downloads
    /\ UNCHANGED <<configVars, originalSegments, requestGroups, requestIndex,
                   batchVars, serverVars, fnVars>>

\* reader.read() rejects because the route errored the stream: handleStream
\* throws and handleSubmit ends in its catch block.
ClientReadFails ==
    /\ cpc = "read"
    /\ srv.pc = "errored"
    /\ FailRun("stream")
    /\ UNCHANGED <<configVars, translatedChunks, submitVars, batchVars, stream,
                   downloads, serverVars, fnVars>>

\* await sleep(INTER_BATCH_DELAY_MS) is over: the loop goes on to the next group.
PauseDone ==
    /\ cpc = "pause"
    /\ StartBatch(requestIndex + 1, progress)
    /\ UNCHANGED <<configVars, status, startedAt, translatedChunks, originalSegments,
                   requestGroups, translatedContent, translatedSegmentCount, stream,
                   downloads, runResult, serverVars, fnVars>>

Next ==
    \/ Submit
    \/ FetchRejects
    \/ FetchGatewayStatus
    \/ FetchServed
    \/ FetchLost
    \/ BackoffDone
    \/ ClientRead
    \/ ClientReadDone
    \/ ClientReadFails
    \/ PauseDone
    \/ BackendReturns
    \/ BackendFails
    \/ BackendTimesOut
    \/ DeadlineFiresDuringSleep
    \/ ServerRetry
    \/ OrphanBackendReturns
    \/ OrphanBackendFails
    \/ OrphanDeadlineFiresDuringSleep
    \/ OrphanRetry

Spec == Init /\ [][Next]_vars

(***************************************************************************)
(* groupSegmentsByTokenLength on its own: every list of up to              *)
(* MaxBatchSegments segments with texts of the lengths BatchTextLengths,   *)
(* under every limit up to MaxTokenLimit.                                  *)
(***************************************************************************)

MaxBatchSegments == 3

MaxTokenLimit == 4

\* Text lengths on both sides of the rounding of estimateTokenCount.
BatchTextLengths == {0, 4, 5, 8, 13}

TextOfLength(n) == [i \in 1..n |-> "x"]

\* Segments numbered in document order, with texts of the given lengths.
SegmentsOfLengths(lengths) ==
    [i \in 1..Len(lengths) |->
        [id |-> i, timestamp |-> Timestamp1, text |-> TextOfLength(lengths[i])]]

BatchInputs ==
    {[segments |-> SegmentsOfLengths(q), length |-> n] :
        q \in SeqsUpTo(BatchTextLengths, MaxBatchSegments), n \in 0..MaxTokenLimit}

\* No Run is under way.
NoRun ==
    /\ content = <<>>
    /\ maxTokensPerTranslationRequest = RunTokenLimit
    /\ serverEnv = "ok"
    /\ ClientIdle
    /\ ServerIdle

runVars == <<configVars, uiVars, cpc, submitVars, batchVars, stream, downloads,
             runResult, serverVars>>

InitBatch ==
    /\ NoRun
    /\ fnInput \in BatchInputs
    /\ fnOutput = <<>>

\* The call groupSegmentsByTokenLength(segments, length) returns.
GroupSegments ==
    /\ fnOutput = <<>>
    /\ fnOutput' = <<groupSegmentsByTokenLength(fnInput.segments, fnInput.length)>>
    /\ UNCHANGED <<runVars, fnInput>>

NextBatch == GroupSegments

SpecBatch == InitBatch /\ [][NextBatch]_vars

\* The groups the call returned.
ReturnedGroups == fnOutput[1]

RECURSIVE SumOfEstimates(_)
SumOfEstimates(group) ==
    IF group = <<>> THEN 0
    ELSE estimateTokenCount(Head(group).text) + SumOfEstimates(Tail(group))

\* Token estimates of the segments of a group plus one delimiter per gap.
GroupCost(group) == SumOfEstimates(group) + (Len(group) - 1) * DELIMITER_TOKEN_COST

IsOversizedSingleton(group, maxTokens) ==
    Len(group) = 1 /\ estimateTokenCount(group[1].text) > maxTokens

\* C1: for every segment list and every maxTokens >= 1, each group returned by
\* groupSegmentsByTokenLength costs at most maxTokens (estimates of its
\* segments plus one delimiter per gap), unless it is a singleton whose only
\* segment's own estimate exceeds maxTokens.
C1_GroupsWithinBudget ==
    (fnOutput # <<>> /\ fnInput.length >= 1) =>
        \A g \in 1..Len(ReturnedGroups) :
            \/ GroupCost(ReturnedGroups[g]) <= fnInput.length
            \/ IsOversizedSingleton(ReturnedGroups[g], fnInput.length)

\* A call returned a group of several segments that fills its budget exactly
\* and an oversized singleton.
C1_Witness ==
    /\ fnOutput # <<>>
    /\ fnInput.length >= 1
    /\ \E g \in 1..Len(ReturnedGroups) :
          /\ Len(ReturnedGroups[g]) >= 2
          /\ GroupCost(ReturnedGroups[g]) = fnInput.length
    /\ \E g \in 1..Len(ReturnedGroups) :
          IsOversizedSingleton(ReturnedGroups[g], fnInput.length)

\* C2: flattening the groups returned by groupSegmentsByTokenLength in group
\* order yields exactly the input segment sequence, and no group is empty (so
\* every group is a non-empty contiguous run of the input, and no segment is
\* dropped, duplicated, reordered or split).
C2_GroupsPartitionInput ==
    fnOutput # <<>> =>
        /\ Concat(ReturnedGroups) = fnInput.segments
        /\ \A g \in 1..Len(ReturnedGroups) : ReturnedGroups[g] # <<>>

\* A call on three segments returned more than one group, one of them with
\* several segments.
C2_Witness ==
    /\ fnOutput # <<>>
    /\ Len(fnInput.segments) = 3
    /\ Len(ReturnedGroups) >= 2
    /\ \E g \in 1..Len(ReturnedGroups) : Len(ReturnedGroups[g]) >= 2

(***************************************************************************)
(* Round trip of the route on its own: a well-formed document is parsed    *)
(* and batched as POST does, a backend that returns every payload          *)
(* unchanged answers each group, and POST emits the blocks.                *)
(***************************************************************************)

MaxRoundTripCues == 3

\* The texts of the cues: one line, two lines, and a quotation.
RoundTripTexts ==
    {<<"H", "i">>, <<"G", "o", "\n", "o", "n">>, <<"\"", "a", "\"">>}

\* Cues in document order; their ids are not their positions.
CuesOfTexts(texts) ==
    [i \in 1..Len(texts) |->
        [id |-> 2 * i,
         timestamp |-> IF i % 2 = 1 THEN Timestamp1 ELSE Timestamp2,
         text |-> texts[i]]]

\* The SRT document of the cues: id line, timestamp line, text, blank line.
DocumentOfCues(cues) ==
    JoinWith([i \in 1..Len(cues) |->
                 NumberToString(cues[i].id) \o <<"\n">> \o cues[i].timestamp
                     \o <<"\n">> \o cues[i].text],
             <<"\n", "\n">>)

RoundTripInputs ==
    {[cues |-> CuesOfTexts(q), content |-> DocumentOfCues(CuesOfTexts(q)),
      length |-> n] :
        q \in SeqsUpTo(RoundTripTexts, MaxRoundTripCues) \ {<<>>},
        n \in 1..MaxTokenLimit}

InitRoundTrip ==
    /\ NoRun
    /\ fnInput \in RoundTripInputs
    /\ fnOutput = [pc |-> "start", segments |-> <<>>, groups |-> <<>>,
                   groupIndex |-> 0, currentIndex |-> 0, blocks |-> <<>>]

\* POST up to the creation of the response stream.
RoundTripAccepted(segments) ==
    [pc |-> IF segments = <<>> THEN "rejected" ELSE "run",
     segments |-> segments,
     groups |-> groupSegmentsByTokenLength(segments, fnInput.length),
     groupIndex |-> 0, currentIndex |-> 0, blocks |-> <<>>]

RoundTripParse ==
    /\ fnOutput.pc = "start"
    /\ fnOutput' = RoundTripAccepted(RequestSegments(fnInput.content))
    /\ UNCHANGED <<runVars, fnInput>>

\* One iteration of the loop of start() with the pieces of the backend's
\* answer; the backend answers every attempt alike, so a rejected answer
\* ends with retrieveTranslation throwing.
RoundTripAfterGroup(st, pieces) ==
    IF ~ShapeAccepted(pieces, Len(st.groups[st.groupIndex + 1]))
    THEN [st EXCEPT !.pc = "errored"]
    ELSE [st EXCEPT
             !.pc = IF st.groupIndex + 1 < Len(st.groups) THEN "run" ELSE "closed",
             !.groupIndex = @ + 1,
             !.currentIndex = @ + Len(pieces),
             !.blocks = @ \o BlockRecords(EmitPieces(st.segments, st.currentIndex,
                                                     pieces))]

RoundTripGroup ==
    /\ fnOutput.pc = "run"
    /\ fnOutput' =
          RoundTripAfterGroup(
              fnOutput,
              splitTranslatedSegments(GroupPayload(fnOutput.groups[fnOutput.groupIndex + 1])))
    /\ UNCHANGED <<runVars, fnInput>>

NextRoundTrip == RoundTripParse \/ RoundTripGroup

SpecRoundTrip == InitRoundTrip /\ [][NextRoundTrip]_vars

\* The emitted blocks are one per cue, in order, with the cue's id and timestamp.
RoundTripKeepsCues ==
    /\ Len(fnOutput.blocks) = Len(fnInput.cues)
    /\ \A i \in 1..Len(fnInput.cues) :
          /\ fnOutput.blocks[i].id = fnInput.cues[i].id
          /\ fnOutput.blocks[i].timestamp = fnInput.cues[i].timestamp

\* C3: for a well-formed document of N cues, parse -> batch -> backend that
\* returns each text unchanged -> reconcile ends with exactly N emitted
\* blocks, the i-th with the id and timestamp of the i-th cue and with the
\* text the backend returned for it, which is the cue's text.
C3_RoundTripIdentity ==
    /\ fnOutput.pc # "errored"
    /\ fnOutput.pc = "closed" =>
          /\ RoundTripKeepsCues
          /\ \A i \in 1..Len(fnInput.cues) :
                fnOutput.blocks[i].text = fnInput.cues[i].text

\* The part of the round trip that holds: the route never fails on these
\* documents, and ids, timestamps and the number of blocks are preserved.
RoundTripStructure ==
    /\ fnOutput.pc \notin {"errored", "rejected"}
    /\ fnOutput.pc = "closed" => RoundTripKeepsCues

\* A round trip of several cues in one group completed with every text intact.
RoundTripIntact ==
    /\ fnOutput.pc = "closed"
    /\ Len(fnInput.cues) >= 2
    /\ Len(fnOutput.groups) = 1
    /\ \A i \in 1..Len(fnInput.cues) : fnOutput.blocks[i].text = fnInput.cues[i].text

(***************************************************************************)
(* Claims about the Run (specification Spec).                              *)
(***************************************************************************)

\* The connected invocation is inside a call of retrieveTranslation.
InRetrieveTranslation == srv.pc \in {"call", "sleep", "errored"}

\* C4: a backend response that splits into a number of pieces different from
\* the group's segment count is never returned by retrieveTranslation: every
\* list it has returned has the length of its group, a call that has not
\* returned has handed nothing to its caller, and an attempt that failed the
\* shape check is followed by a sleep and a further attempt while attempts
\* remain (after the last attempt the error is thrown).
C4_WrongCountNeverReturned ==
    /\ \A g \in 1..Len(srv.returns) : Len(srv.returns[g]) = Len(srv.groups[g])
    /\ InRetrieveTranslation => Len(srv.returns) = srv.groupIndex
    /\ \A k \in 1..Len(srv.errors) :
          srv.errors[k] = "shape" =>
              IF k < MAX_RETRIES
              THEN srv.attempt > k \/ (srv.attempt = k /\ srv.pc = "sleep")
              ELSE srv.pc = "errored"

\* The first answer to a group of two segments had the wrong number of
\* pieces, and the second attempt is in flight.
C4_Witness ==
    /\ srv.pc = "call"
    /\ Len(CurrentGroup(srv)) = 2
    /\ srv.attempt = 2
    /\ srv.errors = <<"shape">>

\* C5: retrieveTranslation returns only lists in which every piece is
\* non-empty after trimming and whose number of non-empty pieces equals the
\* group's segment count.
C5_ReturnedPiecesNonEmpty ==
    \A g \in 1..Len(srv.returns) :
        /\ Len(srv.returns[g]) = Len(srv.groups[g])
        /\ \A p \in 1..Len(srv.returns[g]) : Trim(srv.returns[g][p]) # <<>>

\* C6: a call of retrieveTranslation whose attempts all fail makes exactly
\* MAX_RETRIES backend calls and then throws the error of its last attempt;
\* it makes no further call, returns nothing for the group, and no call
\* ever returns an empty list.
C6_RetryBound ==
    /\ srv.calls <= MAX_RETRIES
    /\ \A k \in 1..Len(orphans) : orphans[k].calls <= MAX_RETRIES
    /\ Len(srv.errors) = MAX_RETRIES => srv.pc = "errored"
    /\ srv.pc = "errored" =>
          /\ srv.calls = MAX_RETRIES
          /\ Len(srv.errors) = MAX_RETRIES
          /\ srv.thrown = srv.errors[MAX_RETRIES]
          /\ Len(srv.returns) = srv.groupIndex
    /\ \A g \in 1..Len(srv.returns) : srv.returns[g] # <<>>

\* Three attempts failed in three different ways and the last error was thrown.
C6_Witness ==
    /\ srv.pc = "errored"
    /\ srv.errors = <<"shape", "timeout", "backend">>
    /\ srv.thrown = "backend"

\* The last attempt of requestTranslationBatch got a response that is not ok.
HttpFailure == Len(lastError) = 2

\* C7: requestTranslationBatch retries a non-2xx response, after a backoff
\* wait and while attempts remain, exactly when its status is one of 408,
\* 425, 429, 500, 502, 503, 504; any other status throws at once with no
\* further fetch.  Attempt n is fetched after exactly n - 1 backoff waits, so
\* a 2xx on attempt 2 is returned after exactly one wait.
C7_StatusRetryPolicy ==
    /\ cpc \in {"fetch", "backoff"} => fetches = attempt
    /\ cpc = "fetch" => waits = attempt - 1
    /\ cpc = "backoff" => waits = attempt /\ attempt < MAX_BATCH_RETRIES
    /\ (cpc \in {"fetch", "backoff"} /\ HttpFailure) =>
          lastError[2] \in {408, 425, 429, 500, 502, 503, 504}
    /\ (runResult = "fetch" /\ HttpFailure) =>
          /\ cpc = "end"
          /\ fetches = attempt
          /\ waits = attempt - 1
          /\ \/ lastError[2] \notin {408, 425, 429, 500, 502, 503, 504}
             \/ attempt = MAX_BATCH_RETRIES

\* Attempt 1 was answered 429, one backoff wait has passed, and the fetch of
\* attempt 2 is about to be answered 200 by the route.
C7_Witness ==
    /\ cpc = "fetch"
    /\ attempt = 2
    /\ lastError = <<"status", 429>>
    /\ waits = 1
    /\ RouteStatus(CurrentRequestContent) = 200

\* The number of backend calls in flight in a route invocation.
CallsInFlight(h) == IF h.pc = "call" THEN 1 ELSE 0

RECURSIVE SumOver(_, _)
SumOver(Op(_), s) == IF s = <<>> THEN 0 ELSE Op(Head(s)) + SumOver(Op, Tail(s))

BackendRequestsInFlight == CallsInFlight(srv) + SumOver(CallsInFlight, orphans)

\* A route invocation still working on its request.
IsWorking(h) == h.pc \in {"call", "sleep"}

\* No invocation is still working on an earlier batch than the connected one.
EarlierBatchesOver ==
    IsWorking(srv) =>
        \A k \in 1..Len(orphans) :
            IsWorking(orphans[k]) => orphans[k].requestNumber >= srv.requestNumber

\* C8: at most one backend request is in flight for a Run at any time, and
\* backend work for a later batch starts and goes on only when all backend
\* work for the earlier batches is over.
C8_OneBackendRequestInFlight ==
    /\ BackendRequestsInFlight <= 1
    /\ EarlierBatchesOver

\* Without a response lost between route and client the claim's property holds.
SequentialWhileNoResponseLost == lost = 0 => C8_OneBackendRequestInFlight

\* The document has only cues with a timestamp line and a text.
AllSegmentsValid ==
    \A i \in 1..Len(originalSegments) :
        originalSegments[i].timestamp # <<>> /\ originalSegments[i].text # <<>>

\* The blocks enqueued so far are, by id and timestamp, a prefix of the
\* document's segments, and a Run that succeeded enqueued one per segment.
EmittedIsPrefix ==
    /\ Len(emitted) <= Len(originalSegments)
    /\ \A i \in 1..Len(emitted) :
          i <= Len(originalSegments) =>
              /\ emitted[i].id = originalSegments[i].id
              /\ emitted[i].timestamp = originalSegments[i].timestamp
    /\ runResult = "done" => Len(emitted) = Len(originalSegments)

\* C9: at every moment of a Run the output blocks emitted so far are a prefix
\* of the document's segment sequence in document order (by id and
\* timestamp), none is emitted twice, and on successful completion there is
\* one block per segment.
C9_EmittedBlocksArePrefix == cpc # "start" => EmittedIsPrefix

\* The same for documents whose blocks are all valid cues.
PrefixForValidDocuments == (cpc # "start" /\ AllSegmentsValid) => EmittedIsPrefix

\* Number of segments in the first n request groups.
RECURSIVE SegmentsInGroups(_, _)
SegmentsInGroups(groups, n) ==
    IF n = 0 THEN 0 ELSE SegmentsInGroups(groups, n - 1) + Len(groups[n])

\* The batch at requestIndex has passed handleSubmit's per-batch test.
CurrentBatchAccepted ==
    cpc = "pause" \/ runResult \in {"done", "totalcount", "emptyoutput"}

\* The batches handleSubmit has added to translatedSegmentCount.
BatchesAccepted == IF CurrentBatchAccepted THEN requestIndex + 1 ELSE requestIndex

\* C10: triggerFileDownload is invoked, and status becomes 'done', only when
\* every batch's response stream completed, every batch decoded exactly as
\* many blocks as its group has segments, and the total equals the number
\* of original segments; a Run that failed in any batch delivers no file.
C10_AllOrNothingDelivery ==
    /\ Len(downloads) <= 1
    /\ translatedSegmentCount = SegmentsInGroups(requestGroups, BatchesAccepted)
    /\ CurrentBatchAccepted =>
          /\ srv.pc = "closed"
          /\ srv.requestNumber = requestIndex + 1
          /\ streamQueue = <<>>
          /\ stream.translatedSegmentCount = Len(requestGroups[requestIndex + 1])
    /\ (downloads # <<>> \/ status = "done") =>
          /\ runResult = "done"
          /\ downloads # <<>>
          /\ status = "done"
          /\ requestIndex = Len(requestGroups) - 1
          /\ translatedSegmentCount = Len(originalSegments)
    /\ runResult \notin {"", "done"} => downloads = <<>> /\ status = "idle"

\* A Run of two batches succeeded and delivered its file.
C10_Witness ==
    /\ runResult = "done"
    /\ Len(requestGroups) = 2
    /\ Len(downloads) = 1

\* A Run failed in its second batch, after the first had succeeded.
SecondBatchFailed ==
    /\ runResult \notin {"", "done"}
    /\ requestIndex = 1
    /\ downloads = <<>>

(***************************************************************************)
(* Validity of the segments a Run batches and sends.                       *)
(***************************************************************************)

\* The validity invariant of a segment: its timestamp matches the timestamp
\* grammar and its text is not empty after trimming.
IsValidSegment(segment) ==
    /\ TimestampLineTest(segment.timestamp)
    /\ Trim(segment.text) # <<>>

AllValidIn(groups) ==
    \A g \in 1..Len(groups) : \A i \in 1..Len(groups[g]) : IsValidSegment(groups[g][i])

\* C11: no segment whose timestamp fails the timestamp grammar or whose text
\* is empty after trimming is ever placed in a group or included in a backend
\* payload, neither among the client's request groups nor among the groups of
\* a route invocation.
C11_InvalidSegmentsNeverBatched ==
    /\ AllValidIn(requestGroups)
    /\ AllValidIn(srv.groups)
    /\ \A k \in 1..Len(orphans) : AllValidIn(orphans[k].groups)

\* The client's part of the same statement, and the route's.
ClientGroupsValid == AllValidIn(requestGroups)

RouteGroupsValid == AllValidIn(srv.groups)

\* The segments of the submitted document that satisfy the validity invariant.
ValidSegmentsOfDocument ==
    FilterSeq(IsValidSegment, MapSeq(parseSegment, splitSrtBlocks(content)))

\* No request has left the client and no route invocation exists.
NoBackendContact ==
    /\ cpc \in {"start", "end"}
    /\ fetches = 0
    /\ srv = NoHandler
    /\ orphans = <<>>

\* C12: when the submitted document has zero valid segments, the Run is
\* aborted with a parse error before any translation request is sent and
\* before any backend call is made, and totalSegments of the progress
\* tracker stays 0.
C12_NoValidSegmentsAborts ==
    ValidSegmentsOfDocument = <<>> =>
        /\ NoBackendContact
        /\ progress.totalSegments = 0
        /\ cpc = "end" => runResult \in {"noblocks", "parse"}

(***************************************************************************)
(* handleStream on its own: a response text arrives in fragments cut at    *)
(* any positions, and the stream ends.                                     *)
(***************************************************************************)

\* The end of handleStream: the trailing block, if any, is counted and parsed.
FlushTrailing(st) ==
    IF Trim(st.pending) # <<>>
    THEN [locals |-> [st EXCEPT !.translatedSegmentCount = @ + 1],
          parsedChunks |-> <<ParseChunk(Trim(st.pending),
                                        st.translatedSegmentCount + 1)>>]
    ELSE [locals |-> st, parsedChunks |-> <<>>]

\* Blocks of the response texts: a cue, a cue without an id line and with two
\* text lines, and a block that is no cue.
StreamBlock1 == <<"7", "\n">> \o Timestamp1 \o <<"\n", "H", "i">>

StreamBlock2 == Timestamp2 \o <<"\n", "G", "o", "\n", "o", "n">>

StreamBlock3 == <<"n", "o", "t", "e">>

\* The response texts: blocks as the route writes them, blocks separated by
\* CRLF blank lines without a trailing separator, by three and four line
\* breaks, and a text that starts with a separator and has a line of spaces.
StreamTexts ==
    {StreamBlock1 \o <<"\n", "\n">> \o StreamBlock2 \o <<"\n", "\n">>,
     StreamBlock3 \o <<"\r", "\n", "\r", "\n">> \o StreamBlock1
         \o <<"\n", "\r", "\n">> \o StreamBlock3,
     StreamBlock3 \o <<"\n", "\n", "\n">> \o StreamBlock2
         \o <<"\n", "\n", "\n", "\n">> \o StreamBlock3,
     <<"\n", "\n">> \o StreamBlock3 \o <<"\n", " ", "\n">> \o StreamBlock3
         \o <<"\r", "\n", "\n", "x">>}

NoCuts == [inSeparator |-> FALSE, inCrLf |-> FALSE, midLine |-> FALSE]

InitDecoder ==
    /\ NoRun
    /\ fnInput \in {[text |-> t] : t \in StreamTexts}
    /\ fnOutput = [pc |-> "read", position |-> 0, locals |-> EmptyStream,
                   chunks |-> <<>>, cuts |-> NoCuts]

\* What a cut after position p of the text goes through.
CutsAt(text, p, cuts) ==
    [inSeparator |-> cuts.inSeparator
                       \/ \E i \in 1..p : MatchBlankLine(text, i) > p,
     inCrLf |-> cuts.inCrLf \/ (text[p] = "\r" /\ text[p + 1] = "\n"),
     midLine |-> cuts.midLine
                   \/ (text[p] \notin {"\r", "\n"} /\ text[p + 1] \notin {"\r", "\n"})]

\* The body of the read loop of handleStream for one fragment.
ReadFragment(st, chunk) ==
    appendChunkToPreview([st EXCEPT !.content = @ \o chunk], st.pending \o chunk)

\* reader.read() resolves with the next fragment, of any length.
DecoderRead ==
    /\ fnOutput.pc = "read"
    /\ \E p \in (fnOutput.position + 1)..Len(fnInput.text) :
          LET r == ReadFragment(fnOutput.locals,
                                SubSeq(fnInput.text, fnOutput.position + 1, p))
          IN fnOutput' =
                [fnOutput EXCEPT
                    !.position = p,
                    !.locals = r.locals,
                    !.chunks = @ \o r.parsedChunks,
                    !.cuts = IF p < Len(fnInput.text)
                             THEN CutsAt(fnInput.text, p, @) ELSE @]
    /\ UNCHANGED <<runVars, fnInput>>

\* reader.read() resolves with done.
DecoderDone ==
    /\ fnOutput.pc = "read"
    /\ fnOutput.position = Len(fnInput.text)
    /\ LET r == FlushTrailing(fnOutput.locals)
       IN fnOutput' = [fnOutput EXCEPT !.pc = "done",
                                       !.locals = r.locals,
                                       !.chunks = @ \o r.parsedChunks]
    /\ UNCHANGED <<runVars, fnInput>>

NextDecoder == DecoderRead \/ DecoderDone

SpecDecoder == InitDecoder /\ [][NextDecoder]_vars

\* handleStream on the whole text delivered as a single fragment.
WholeRead(text) == ReadFragment(EmptyStream, text)

WholeResult(read) ==
    [content |-> FlushTrailing(read.locals).locals.content,
     translatedSegmentCount |->
         FlushTrailing(read.locals).locals.translatedSegmentCount,
     chunks |-> read.parsedChunks \o FlushTrailing(read.locals).parsedChunks]

\* C13: however the text is cut into consecutive fragments, handleStream ends
\* with the same ordered chunks, the same translatedSegmentCount and the same
\* accumulated content as when the whole text is delivered as one fragment.
C13_DecoderIgnoresFragmentation ==
    fnOutput.pc = "done" =>
        /\ fnOutput.chunks = WholeResult(WholeRead(fnInput.text)).chunks
        /\ fnOutput.locals.translatedSegmentCount =
              WholeResult(WholeRead(fnInput.text)).translatedSegmentCount
        /\ fnOutput.locals.content = WholeResult(WholeRead(fnInput.text)).content

\* A text of several chunks was decoded from fragments cut inside a blank-line
\* separator, inside a CRLF and in the middle of a line.
C13_Witness ==
    /\ fnOutput.pc = "done"
    /\ fnOutput.cuts.inSeparator
    /\ fnOutput.cuts.inCrLf
    /\ fnOutput.cuts.midLine
    /\ Len(fnOutput.chunks) >= 3

(***************************************************************************)
(* Segment ids after normalizeSegmentIds.                                  *)
(***************************************************************************)

IdsPositive(segments) ==
    \A i \in 1..Len(segments) : IsFinite(segments[i].id) /\ segments[i].id > 0

IdsDistinct(segments) ==
    \A i, j \in 1..Len(segments) : i # j => segments[i].id # segments[j].id

\* C14: after id normalization every segment of a document has an id that is
\* a positive finite integer, and no two segments of the document share an id.
C14_IdsPositiveAndUnique ==
    /\ IdsPositive(originalSegments)
    /\ IdsDistinct(originalSegments)

\* The part that holds: the ids of the client's and of the route's segments
\* are positive finite integers.
NormalizedIdsPositive ==
    /\ IdsPositive(originalSegments)
    /\ IdsPositive(srv.segments)

(***************************************************************************)
(* Outcomes of a POST to the translation route.                            *)
(***************************************************************************)

\* The pieces retrieveTranslation has returned to an invocation, in order.
ReturnedPieces(h) == Concat(h.returns)

\* The body of one output block per segment of the request, in order.
BodyOfBlocks(segments, pieces) ==
    Concat([i \in 1..Len(segments) |-> OutputBlock(segments[i], pieces[i])])

\* The body the client has received or can still read from the connected
\* invocation's response.
ResponseBody == stream.content \o streamQueue

\* A 200 response whose stream was closed carries one block per segment of
\* the request.
ClosedBodyIsComplete ==
    srv.pc = "closed" =>
        /\ Len(ReturnedPieces(srv)) = Len(srv.segments)
        /\ ResponseBody = BodyOfBlocks(srv.segments, ReturnedPieces(srv))

\* C15: every POST to the translation endpoint ends either as a 2xx response
\* whose completed body is the concatenation of one output block per
\* submitted segment, or as a non-2xx response with a JSON error body; a
\* backend failure after exhausted retries ends in the second way, so no 2xx
\* response ends with its stream errored.
C15_PostEndsInOneOfTwoOutcomes ==
    /\ srv.pc # "errored"
    /\ ClosedBodyIsComplete

(***************************************************************************)
(* The route under a missing key or an invalid runtime configuration.      *)
(***************************************************************************)

\* C16: when the API key is missing or the runtime configuration is invalid,
\* the route answers with an error before parsing any segment and makes no
\* backend call: no invocation with segments or groups exists, no block is
\* emitted, and the client never gets a response stream.
C16_InvalidConfigurationStopsRoute ==
    serverEnv # "ok" =>
        /\ srv = NoHandler
        /\ orphans = <<>>
        /\ BackendRequestsInFlight = 0
        /\ emitted = <<>>
        /\ cpc \in {"start", "fetch", "backoff", "end"}
        /\ cpc = "end" => runResult \in {"noblocks", "parse", "fetch"}

\* Without a key the route answered every attempt of the client with 500, and
\* the Run failed on the last one.
C16_Witness ==
    /\ serverEnv = "nokey"
    /\ runResult = "fetch"
    /\ attempt = MAX_BATCH_RETRIES
    /\ lastError = <<"status", 500>>

\* The same under an invalid runtime configuration, while the client retries.
InvalidConfigurationAnswered ==
    /\ serverEnv = "badconfig"
    /\ cpc = "backoff"
    /\ lastError = <<"status", 500>>

(***************************************************************************)
(* The edge gate (netlify/edge-functions/basic-auth.js).                   *)
(***************************************************************************)

Base64Chars ==
    <<"A", "B", "C", "D", "E", "F", "G", "H", "I", "J", "K", "L", "M", "N", "O", "P",
      "Q", "R", "S", "T", "U", "V", "W", "X", "Y", "Z", "a", "b", "c", "d", "e", "f",
      "g", "h", "i", "j", "k", "l", "m", "n", "o", "p", "q", "r", "s", "t", "u", "v",
      "w", "x", "y", "z", "0", "1", "2", "3", "4", "5", "6", "7", "8", "9", "+", "/">>

IsBase64Char(c) == \E i \in 1..Len(Base64Chars) : Base64Chars[i] = c

\* The six-bit value of a character of the base64 alphabet.
Base64Value(c) == (CHOOSE i \in 1..Len(Base64Chars) : Base64Chars[i] = c) - 1

\* The character of a six-bit value.
Base64Char(v) == Base64Chars[v + 1]

\* The characters credentials are written with, and their character codes.
CredentialChars == {"u", "p", "x", ":"}

CharCode(c) ==
    CASE c = "u" -> 117 [] c = "p" -> 112 [] c = "x" -> 120 [] c = ":" -> 58

\* The character of a code; "?" stands for every character outside
\* CredentialChars.
CharOfCode(n) ==
    IF \E c \in CredentialChars : CharCode(c) = n
    THEN CHOOSE c \in CredentialChars : CharCode(c) = n
    ELSE "?"

\* The four base64 characters of 24 bits.
EncodeGroup(n) ==
    <<Base64Char(n \div 262144), Base64Char((n \div 4096) % 64),
      Base64Char((n \div 64) % 64), Base64Char(n % 64)>>

\* btoa(s): what a client does to build the credentials of the header.
RECURSIVE btoa(_)
btoa(s) ==
    IF s = <<>> THEN <<>>
    ELSE IF Len(s) = 1
    THEN SubSeq(EncodeGroup(CharCode(s[1]) * 65536), 1, 2) \o <<"=", "=">>
    ELSE IF Len(s) = 2
    THEN SubSeq(EncodeGroup(CharCode(s[1]) * 65536 + CharCode(s[2]) * 256), 1, 3)
             \o <<"=">>
    ELSE EncodeGroup(CharCode(s[1]) * 65536 + CharCode(s[2]) * 256 + CharCode(s[3]))
             \o btoa(SubSeq(s, 4, Len(s)))

\* The characters of 6 * Len(data) bits, whole bytes only: the rest of the
\* bits of an incomplete last group is discarded.
RECURSIVE DecodeGroups(_)
DecodeGroups(data) ==
    IF Len(data) <= 1 THEN <<>>
    ELSE IF Len(data) = 2
    THEN <<CharOfCode((Base64Value(data[1]) * 64 + Base64Value(data[2])) \div 16)>>
    ELSE IF Len(data) = 3
    THEN <<CharOfCode((Base64Value(data[1]) * 4096 + Base64Value(data[2]) * 64
                          + Base64Value(data[3])) \div 1024),
           CharOfCode(((Base64Value(data[1]) * 4096 + Base64Value(data[2]) * 64
                           + Base64Value(data[3])) \div 4) % 256)>>
    ELSE <<CharOfCode((Base64Value(data[1]) * 4 + Base64Value(data[2]) \div 16) % 256),
           CharOfCode(((Base64Value(data[2]) % 16) * 16
                          + Base64Value(data[3]) \div 4) % 256),
           CharOfCode(((Base64Value(data[3]) % 4) * 64 + Base64Value(data[4])) % 256)>>
         \o DecodeGroups(SubSeq(data, 5, Len(data)))

IsNotWs(c) == ~IsWs(c)

\* The data of atob without ASCII whitespace.
WithoutWhitespace(data) == FilterSeq(IsNotWs, data)

\* The data without the one or two "=" that may end data of a length that is
\* a multiple of four.
WithoutPadding(data) ==
    IF Len(data) % 4 # 0 \/ data = <<>> \/ data[Len(data)] # "=" THEN data
    ELSE IF data[Len(data) - 1] = "=" THEN SubSeq(data, 1, Len(data) - 2)
    ELSE SubSeq(data, 1, Len(data) - 1)

DecodeStripped(data) ==
    IF Len(data) % 4 = 1 \/ \E i \in 1..Len(data) : ~IsBase64Char(data[i])
    THEN [ok |-> FALSE, value |-> <<>>]
    ELSE [ok |-> TRUE, value |-> DecodeGroups(data)]

\* atob(data): ok is FALSE when it throws.
atob(data) == DecodeStripped(WithoutPadding(WithoutWhitespace(data)))

\* An environment variable or a header: absent, or present with a value.
Absent == [present |-> FALSE, value |-> <<>>]

Present(v) == [present |-> TRUE, value |-> v]

\* !v for a string or undefined.
IsFalsy(v) == ~v.present \/ v.value = <<>>

\* decoded.indexOf(":"), 1-based; 0 when there is none.
SeparatorIndex(decoded) ==
    IF \E i \in 1..Len(decoded) : decoded[i] = ":"
    THEN SetMin({i \in 1..Len(decoded) : decoded[i] = ":"})
    ELSE 0

\* The gate comparing the user only.
CredentialsMatchUserOnly(decoded, separatorIndex, username, password) ==
    SubSeq(decoded, 1, separatorIndex - 1) = username

\* providedUser === username && providedPass === password
CredentialsMatch(decoded, separatorIndex, username, password) ==
    /\ SubSeq(decoded, 1, separatorIndex - 1) = username
    /\ SubSeq(decoded, separatorIndex + 1, Len(decoded)) = password

BasicScheme == <<"B", "a", "s", "i", "c", " ">>

\* The try block of basicAuth on the decoded credentials.
CheckDecoded(decoded, username, password) ==
    IF ~decoded.ok THEN 401
    ELSE IF SeparatorIndex(decoded.value) = 0 THEN 401
    ELSE IF CredentialsMatch(decoded.value, SeparatorIndex(decoded.value),
                             username, password)
    THEN 200
    ELSE 401

\* basicAuth(request, context): 200 stands for context.next(), 401 for the
\* Unauthorized response.
basicAuth(username, password, authHeader) ==
    IF IsFalsy(username) \/ IsFalsy(password) THEN 200
    ELSE IF IsFalsy(authHeader) \/ ~HasAt(authHeader.value, 1, BasicScheme) THEN 401
    ELSE CheckDecoded(atob(Trim(SubSeq(authHeader.value, Len(BasicScheme) + 1,
                                       Len(authHeader.value)))),
                      username.value, password.value)

\* Configured values of BASIC_AUTH_USER and BASIC_AUTH_PASS: not set, or set
\* to a value; a password may contain ":".
GateUsers == {Absent, Present(<<"u">>), Present(<<"u", "p">>)}

GatePasswords == {Absent, Present(<<"p">>), Present(<<"p", ":", "p">>)}

\* The credentials clients send, as user:password strings.
PlainCredentials ==
    {<<"u", ":", "p">>, <<"u", ":", "p", ":", "p">>, <<"u", "p", ":", "p">>,
     <<"u", ":", "x">>, <<"x", ":", "p">>, <<"u", ":">>, <<":", "p">>,
     <<"u", "p">>, <<>>}

\* A request whose Authorization header encodes plain under a scheme; sent is
\* FALSE when the header carries no base64 of any credentials.
EncodedRequest(scheme, plain, value) ==
    [scheme |-> scheme, sent |-> TRUE, plain |-> plain, header |-> Present(value)]

OtherRequest(header) ==
    [scheme |-> <<>>, sent |-> FALSE, plain |-> <<>>, header |-> header]

\* The requests: no header, the header a client builds for each of the
\* credentials, the same with spaces around the credentials and without the
\* padding, other schemes, and credentials that are no base64.
GateRequests ==
    {OtherRequest(Absent),
     OtherRequest(Present(BasicScheme \o <<"!", "!", "!", "!">>)),
     OtherRequest(Present(BasicScheme \o <<"d", "T", "p", "w", "d">>)),
     OtherRequest(Present(<<"B", "a", "s", "i", "c">>)) }
    \cup {EncodedRequest(BasicScheme, d, BasicScheme \o btoa(d)) :
             d \in PlainCredentials}
    \cup {EncodedRequest(BasicScheme, d, BasicScheme \o <<" ">> \o btoa(d) \o <<" ">>) :
             d \in {<<"u", ":", "p">>, <<"u", ":", "x">>}}
    \cup {EncodedRequest(BasicScheme, d, BasicScheme \o WithoutPadding(btoa(d))) :
             d \in {<<"u", ":", "p", ":", "p">>, <<"u", ":">>}}
    \cup {EncodedRequest(scheme, <<"u", ":", "p">>, scheme \o btoa(<<"u", ":", "p">>)) :
             scheme \in {<<"b", "a", "s", "i", "c", " ">>,
                         <<"B", "e", "a", "r", "e", "r", " ">>,
                         <<"B", "a", "s", "i", "c">>}}

GateInputs ==
    {[username |-> u, password |-> p, request |-> r] :
        u \in GateUsers, p \in GatePasswords, r \in GateRequests}

InitGate ==
    /\ NoRun
    /\ fnInput \in GateInputs
    /\ fnOutput = <<>>

\* The edge function handles the request.
Gate ==
    /\ fnOutput = <<>>
    /\ fnOutput' = <<basicAuth(fnInput.username, fnInput.password,
                               fnInput.request.header)>>
    /\ UNCHANGED <<runVars, fnInput>>

NextGate == Gate

SpecGate == InitGate /\ [][NextGate]_vars

GateConfigured == fnInput.username.present /\ fnInput.password.present

Forwarded == fnOutput = <<200>>

\* The credentials of the request are the configured user and password.
CarriesConfiguredCredentials ==
    /\ fnInput.request.sent
    /\ fnInput.request.scheme = BasicScheme
    /\ fnInput.request.plain =
          fnInput.username.value \o <<":">> \o fnInput.password.value

\* C17: with both BASIC_AUTH_USER and BASIC_AUTH_PASS set, the gate forwards
\* a request exactly when its Authorization header is Basic followed by the
\* base64 of user:password with the configured user and password (the
\* password being everything after the first ":"), and answers 401 to every
\* other request, undecodable credentials included; with either variable
\* unset it forwards every request.
C17_GateForwardsOnlyConfiguredCredentials ==
    fnOutput # <<>> =>
        /\ fnOutput \in {<<200>>, <<401>>}
        /\ ~GateConfigured => Forwarded
        /\ GateConfigured => (Forwarded <=> CarriesConfiguredCredentials)

\* The gate forwarded a request with the configured credentials, whose
\* password contains ":".
C17_Witness ==
    /\ Forwarded
    /\ GateConfigured
    /\ fnInput.password.value = <<"p", ":", "p">>
    /\ CarriesConfiguredCredentials

\* The gate answered 401 to credentials that cannot be decoded and to a
\* wrong password.
GateRejected ==
    /\ fnOutput = <<401>>
    /\ fnInput.request.header.present
    /\ ~fnInput.request.sent \/ fnInput.request.plain = <<"u", ":", "x">>

(***************************************************************************)
(* Runtime configuration (lib/translation-config).                         *)
(***************************************************************************)

DEFAULT_GEMINI_MODEL_NAME ==
    <<"g", "e", "m", "i", "n", "i", "-", "3", "-", "f", "l", "a", "s", "h", "-",
      "p", "r", "e", "v", "i", "e", "w">>

DEFAULT_GEMINI_BATCH_TOKENS == 350

MIN_GEMINI_BATCH_TOKENS == 100

MAX_GEMINI_BATCH_TOKENS == 2000

LevelMinimal == <<"m", "i", "n", "i", "m", "a", "l">>

LevelLow == <<"l", "o", "w">>

LevelMedium == <<"m", "e", "d", "i", "u", "m">>

LevelHigh == <<"h", "i", "g", "h">>

GEMINI_THINKING_LEVELS == <<LevelMinimal, LevelLow, LevelMedium, LevelHigh>>

DEFAULT_GEMINI_THINKING_LEVEL == LevelLow

\* getFirstDefinedEnvValue(keys) on the values of the keys, in order: the
\* first value that is not empty after trimming, trimmed; Absent for null.
RECURSIVE getFirstDefinedEnvValue(_)
getFirstDefinedEnvValue(values) ==
    IF values = <<>> THEN Absent
    ELSE IF Head(values).present /\ Trim(Head(values).value) # <<>>
    THEN Present(Trim(Head(values).value))
    ELSE getFirstDefinedEnvValue(Tail(values))

\* isGeminiThinkingLevel(value)
isGeminiThinkingLevel(value) ==
    \E i \in 1..Len(GEMINI_THINKING_LEVELS) : GEMINI_THINKING_LEVELS[i] = value

LevelError ==
    "Invalid GEMINI_THINKING_LEVEL value. Use one of: \"minimal\", \"low\", \"medium\", \"high\"."

TokensError ==
    "Invalid GEMINI_BATCH_TOKENS value. Use an integer between 100 and 2000."

NoError == "null"

ConfigResult(modelName, maxTokensPerRequest, thinkingLevel, error) ==
    [config |-> [modelName |-> modelName,
                 maxTokensPerRequest |-> maxTokensPerRequest,
                 thinkingLevel |-> thinkingLevel,
                 isGemini3Model |-> HasAt(modelName, 1,
                                          SubSeq(DEFAULT_GEMINI_MODEL_NAME, 1, 8))],
     error |-> error]

\* parsed < MIN_GEMINI_BATCH_TOKENS || parsed > MAX_GEMINI_BATCH_TOKENS
TokensOutOfRange(parsed) ==
    parsed < MIN_GEMINI_BATCH_TOKENS \/ parsed > MAX_GEMINI_BATCH_TOKENS

\* The part of resolveTranslationRuntimeConfig that reads the batch tokens.
ResolveBatchTokens(modelName, thinkingLevel, batchTokenLimitRaw) ==
    IF ~batchTokenLimitRaw.present
    THEN ConfigResult(modelName, DEFAULT_GEMINI_BATCH_TOKENS, thinkingLevel, NoError)
    ELSE IF ~IsFinite(ParseInt(batchTokenLimitRaw.value))
    THEN ConfigResult(modelName, DEFAULT_GEMINI_BATCH_TOKENS, thinkingLevel,
                      TokensError)
    ELSE IF TokensOutOfRange(ParseInt(batchTokenLimitRaw.value))
    THEN ConfigResult(modelName, DEFAULT_GEMINI_BATCH_TOKENS, thinkingLevel,
                      TokensError)
    ELSE ConfigResult(modelName, ParseInt(batchTokenLimitRaw.value), thinkingLevel,
                      NoError)

\* The part that reads the thinking level and goes on to the batch tokens.
ResolveThinkingLevel(modelName, thinkingLevelRaw, batchTokenLimitRaw) ==
    IF thinkingLevelRaw.present /\ ~isGeminiThinkingLevel(thinkingLevelRaw.value)
    THEN ConfigResult(modelName, DEFAULT_GEMINI_BATCH_TOKENS,
                      DEFAULT_GEMINI_THINKING_LEVEL, LevelError)
    ELSE ResolveBatchTokens(modelName,
                            IF thinkingLevelRaw.present THEN thinkingLevelRaw.value
                            ELSE DEFAULT_GEMINI_THINKING_LEVEL,
                            batchTokenLimitRaw)

\* modelName: the first defined value, or the default.
ModelNameOf(modelNameRaw) ==
    IF modelNameRaw.present THEN modelNameRaw.value ELSE DEFAULT_GEMINI_MODEL_NAME

\* resolveTranslationRuntimeConfig() under the environment env.
resolveTranslationRuntimeConfig(env) ==
    ResolveThinkingLevel(
        ModelNameOf(getFirstDefinedEnvValue(<<env.NETLIFY_GEMINI_MODEL_NAME,
                                              env.GEMINI_MODEL_NAME>>)),
        getFirstDefinedEnvValue(<<env.NETLIFY_GEMINI_THINKING_LEVEL,
                                  env.GEMINI_THINKING_LEVEL>>),
        getFirstDefinedEnvValue(<<env.NETLIFY_GEMINI_BATCH_TOKENS,
                                  env.GEMINI_BATCH_TOKENS>>))

\* Values of the environment variables: a level given in the generic and in
\* the Netlify variable, valid, padded with spaces, blank, unknown or in
\* another case; batch tokens at and beyond both ends of the range, padded,
\* negative, without any digit, and digits followed by a letter.
LevelValues ==
    {Absent, Present(LevelHigh), Present(<<" ">> \o LevelMedium \o <<" ">>),
     Present(<<"m", "a", "x">>), Present(<<" ">>)}

NetlifyLevelValues == {Absent, Present(LevelMinimal), Present(<<"H", "i", "g", "h">>)}

TokenValues ==
    {Absent, Present(<<"1", "0", "0">>), Present(<<"2", "0", "0", "0">>),
     Present(<<"9", "9">>), Present(<<"2", "0", "0", "1">>),
     Present(<<"a", "b", "c">>), Present(<<"2", "0", "0", "x">>),
     Present(<<" ", "5", "0", "0", " ">>), Present(<<"-", "5">>)}

NetlifyTokenValues == {Absent, Present(<<"1", "2", "0", "0">>), Present(<<"0">>)}

ModelValues == {Absent, Present(<<"g", "e", "m", "i", "n", "i", "-", "2">>)}

NetlifyModelValues ==
    {Absent, Present(<<"g", "e", "m", "i", "n", "i", "-", "3", "-", "p", "r", "o">>)}

ConfigEnvironments ==
    {[NETLIFY_GEMINI_MODEL_NAME |-> nm, GEMINI_MODEL_NAME |-> gm,
      NETLIFY_GEMINI_THINKING_LEVEL |-> nl, GEMINI_THINKING_LEVEL |-> gl,
      NETLIFY_GEMINI_BATCH_TOKENS |-> nt, GEMINI_BATCH_TOKENS |-> gt] :
        nm \in NetlifyModelValues, gm \in ModelValues,
        nl \in NetlifyLevelValues, gl \in LevelValues,
        nt \in NetlifyTokenValues, gt \in TokenValues}

InitConfig ==
    /\ NoRun
    /\ fnInput \in ConfigEnvironments
    /\ fnOutput = <<>>

\* The call resolveTranslationRuntimeConfig() returns.
ResolveConfig ==
    /\ fnOutput = <<>>
    /\ fnOutput' = <<resolveTranslationRuntimeConfig(fnInput)>>
    /\ UNCHANGED <<runVars, fnInput>>

NextConfig == ResolveConfig

SpecConfig == InitConfig /\ [][NextConfig]_vars

\* The value provided for the thinking level, and for the batch tokens.
ProvidedLevel ==
    getFirstDefinedEnvValue(<<fnInput.NETLIFY_GEMINI_THINKING_LEVEL,
                              fnInput.GEMINI_THINKING_LEVEL>>)

ProvidedTokens ==
    getFirstDefinedEnvValue(<<fnInput.NETLIFY_GEMINI_BATCH_TOKENS,
                              fnInput.GEMINI_BATCH_TOKENS>>)

\* The text is a decimal integer: an optional sign and digits, nothing else.
IsNumeric(s) ==
    /\ s # <<>>
    /\ \A i \in 2..Len(s) : IsDigit(s[i])
    /\ IsDigit(s[1]) \/ (s[1] \in {"-", "+"} /\ Len(s) >= 2)

LevelRejected ==
    ProvidedLevel.present
        /\ ProvidedLevel.value \notin {LevelMinimal, LevelLow, LevelMedium, LevelHigh}

TokensRejected ==
    ProvidedTokens.present
        /\ \/ ~IsNumeric(ProvidedTokens.value)
           \/ ParseInt(ProvidedTokens.value) \notin 100..2000

\* The config returned is always usable: batch tokens within 100..2000 (350
\* when the variable is unset or the call reports an error), and a thinking
\* level of the enumeration (low when unset or rejected).
ConfigWithinRange ==
    fnOutput # <<>> =>
        /\ fnOutput[1].config.maxTokensPerRequest \in 100..2000
        /\ (~ProvidedTokens.present \/ fnOutput[1].error # NoError) =>
              fnOutput[1].config.maxTokensPerRequest = 350
        /\ fnOutput[1].config.thinkingLevel
              \in {LevelMinimal, LevelLow, LevelMedium, LevelHigh}
        /\ (~ProvidedLevel.present \/ LevelRejected) =>
              fnOutput[1].config.thinkingLevel = LevelLow

\* C18: resolveTranslationRuntimeConfig always returns a config whose
\* maxTokensPerRequest is an integer in [100, 2000] (350 when the variable is
\* unset or rejected) and whose thinkingLevel is one of minimal, low, medium,
\* high (low when unset or rejected); error is non-null exactly when a
\* provided batch-token value is non-numeric or outside [100, 2000], or a
\* provided thinking level is not in the enumeration.
C18_ConfigBoundedAndErrorExact ==
    /\ ConfigWithinRange
    /\ fnOutput # <<>> =>
          /\ TokensRejected => fnOutput[1].config.maxTokensPerRequest = 350
          /\ fnOutput[1].error # NoError <=> (TokensRejected \/ LevelRejected)

\* What the code reports instead: an error exactly when the level is unknown,
\* or the batch-token value has no leading integer or its leading integer is
\* outside the range.
ErrorIffLeadingIntegerRejected ==
    fnOutput # <<>> =>
        (fnOutput[1].error # NoError <=>
            \/ LevelRejected
            \/ ProvidedTokens.present
                  /\ \/ ~IsFinite(ParseInt(ProvidedTokens.value))
                     \/ ParseInt(ProvidedTokens.value) \notin 100..2000)

\* A batch-token value of digits followed by a letter was accepted.
TrailingTextAccepted ==
    /\ fnOutput # <<>>
    /\ ProvidedTokens = Present(<<"2", "0", "0", "x">>)
    /\ fnOutput[1].error = NoError
    /\ fnOutput[1].config.maxTokensPerRequest = 200

(***************************************************************************)
(* C19: the deadline of an attempt.                                        *)
(***************************************************************************)

\* retrieveTranslation of the connected invocation is running.
DeadlineScope == srv.pc \in {"call", "sleep"}

\* The failed attempts of the current call of retrieveTranslation are counted
\* one by one: every attempt before the current one, and the current one
\* once its error is caught.
AttemptsCountedOnce ==
    /\ srv.pc = "call" => Len(srv.errors) = srv.attempt - 1
    /\ srv.pc \in {"sleep", "errored"} => Len(srv.errors) = srv.attempt

\* The attempt whose error was caught last failed on its deadline.
LastAttemptTimedOut ==
    /\ srv.errors # <<>>
    /\ srv.errors[Len(srv.errors)] = "timeout"

\* C19: a per-attempt deadline aborts only the attempt that armed it.  The
\* only timer ever armed is the one of the current attempt, so no timer of an
\* earlier attempt or of another group's call can fire later; an attempt in
\* flight has a controller nobody has aborted; an attempt that failed on its
\* deadline is one caught error, it had its own controller aborted and its
\* timer is spent; the call gives up only at attempt MAX_RETRIES; and once
\* retrieveTranslation has returned or thrown for the last time no timer is
\* armed.
C19_DeadlineAbortsOnlyItsAttempt ==
    /\ srv.timers \subseteq {srv.abortController}
    /\ srv.aborted \subseteq {srv.abortController}
    /\ srv.pc = "call" => /\ srv.timers = {srv.abortController}
                          /\ srv.abortController \notin srv.aborted
    /\ AttemptsCountedOnce
    /\ (srv.pc \in {"sleep", "errored"} /\ LastAttemptTimedOut)
          => /\ srv.abortController \in srv.aborted
             /\ srv.timers = {}
    /\ srv.pc = "sleep" => srv.attempt < MAX_RETRIES
    /\ srv.pc = "errored" => srv.attempt = MAX_RETRIES
    /\ ~DeadlineScope => srv.timers = {}

\* The deadline of an attempt has fired and the next attempt is in flight.
C19_Witness ==
    /\ srv.pc = "call"
    /\ srv.attempt > 1
    /\ LastAttemptTimedOut

\* A deadline has fired during the pause after an attempt that failed for
\* another reason.
DeadlineFiredAfterFailure ==
    /\ srv.pc = "sleep"
    /\ ~LastAttemptTimedOut
    /\ srv.abortController \in srv.aborted

(***************************************************************************)
(* C20: a group whose attempts are exhausted.                              *)
(***************************************************************************)

\* retrieveTranslation has returned one list per group of the request, each
\* with one piece per segment of its group.
EveryGroupReturned(h) ==
    /\ Len(h.returns) = Len(h.groups)
    /\ \A i \in 1..Len(h.returns) : Len(h.returns[i]) = Len(h.groups[i])

\* The connected invocation while and after its attempts run out: attempts
\* remain as long as retrieveTranslation runs; the stream is errored with
\* MAX_RETRIES errors caught for the group at groupIndex and a list returned
\* for each group before it and for none after it; the stream is closed only
\* with every group translated; and the client of an errored stream is
\* reading it or has ended the Run as failed, without a download.
ExhaustionState ==
    /\ srv.pc \in {"call", "sleep"} => Len(srv.errors) < MAX_RETRIES
    /\ srv.pc = "errored" =>
          /\ Len(srv.errors) = MAX_RETRIES
          /\ Len(srv.returns) = srv.groupIndex
          /\ cpc \in {"read", "end"}
          /\ cpc = "end" => /\ runResult = "stream"
                            /\ status = "idle"
                            /\ downloads = <<>>
    /\ srv.pc = "closed" => EveryGroupReturned(srv)

\* A step taken while the connected invocation's stream is errored: the
\* invocation does nothing more, the client sends no request and moves to no
\* other batch, and the only way on for the Run is to fail.
ExhaustionFinal ==
    srv.pc = "errored" =>
       /\ srv' = srv
       /\ fetches' = fetches
       /\ requestIndex' = requestIndex
       /\ cpc' # cpc => (cpc' = "end" /\ runResult' = "stream")

\* C20: once a group's attempts are exhausted, no backend request is issued
\* for any later group of the request, the response stream is errored rather
\* than closed normally, and the client ends the Run as failed without
\* requesting any further batch.
C20_ExhaustionEndsRequestAndRun ==
    /\ []ExhaustionState
    /\ [][ExhaustionFinal]_vars

\* The Run has failed on the errored stream of a batch with another batch
\* still to request.
C20_Witness ==
    /\ srv.pc = "errored"
    /\ cpc = "end"
    /\ runResult = "stream"
    /\ requestIndex + 1 < Len(requestGroups)

\* The invocation gave up on a group with a later group of its request
\* untranslated.
ExhaustedBeforeLastGroup ==
    /\ srv.pc = "errored"
    /\ srv.groupIndex + 1 < Len(srv.groups)

(***************************************************************************)
(* C21: the attempt whose response is returned.                            *)
(***************************************************************************)

\* While retrieveTranslation waits for attempt k it has called the backend k
\* times, slept k - 1 times and caught k - 1 errors; while it sleeps after
\* attempt k it has slept k times.
AttemptCounters ==
    /\ srv.pc = "call" => /\ srv.attempt \in 1..MAX_RETRIES
                          /\ srv.calls = srv.attempt
                          /\ srv.sleeps = srv.attempt - 1
                          /\ Len(srv.errors) = srv.attempt - 1
    /\ srv.pc = "sleep" => /\ srv.calls = srv.attempt
                           /\ srv.sleeps = srv.attempt
                           /\ Len(srv.errors) = srv.attempt

\* The list retrieveTranslation returned last.
LastReturned(h) == h.returns[Len(h.returns)]

\* A step in which retrieveTranslation returns: the list it returns is the
\* split of a response to the call in flight with one piece per segment of
\* the group, and the blocks emitted are made of that list.
ReturnsCurrentAttempt ==
    (srv.pc = "call" /\ Len(srv'.returns) = Len(srv.returns) + 1) =>
       /\ \E rawText \in BackendResponses(GroupTexts(CurrentGroup(srv))) :
             LastReturned(srv') = splitTranslatedSegments(rawText)
       /\ Len(LastReturned(srv')) = Len(CurrentGroup(srv))
       /\ emitted' = emitted \o BlockRecords(EmitPieces(srv.segments, srv.currentIndex,
                                                        LastReturned(srv')))

\* A step in which an attempt fails emits nothing.
FailedAttemptEmitsNothing ==
    (srv.pc = "call" /\ Len(srv'.errors) > Len(srv.errors)) =>
       /\ emitted' = emitted
       /\ streamQueue' = streamQueue
       /\ srv'.returns = srv.returns

\* C21: when attempt k is the first whose response has the expected piece
\* count, retrieveTranslation has made exactly k backend calls and waited
\* exactly k - 1 times when it returns, it returns the pieces of attempt k,
\* and nothing of a failed attempt is emitted.
C21_ReturnsFirstAcceptedAttempt ==
    /\ []AttemptCounters
    /\ [][ReturnsCurrentAttempt /\ FailedAttemptEmitsNothing]_vars

\* Attempts 1 and 2 returned a wrong piece count and attempt MAX_RETRIES is
\* in flight after two waits.
C21_Witness ==
    /\ srv.pc = "call"
    /\ srv.attempt = MAX_RETRIES
    /\ srv.errors = <<"shape", "shape">>
    /\ srv.calls = 3
    /\ srv.sleeps = 2

(***************************************************************************)
(* C22: the wait before a retry.  getRetryDelayMs (app/page.tsx) for the   *)
(* attempts of requestTranslationBatch that can be followed by another,    *)
(* and the sleep in the catch block of retrieveTranslation.                *)
(***************************************************************************)

BASE_BACKOFF_DELAY_MS == 1000

MAX_BACKOFF_DELAY_MS == 12000

\* The largest jitter and one more: Math.floor(Math.random() * 250).
JitterSpan == 250

\* Math.random() is drawn in thousandths: 0, 0.001, ..., 0.999.
RandomSteps == 1000

\* The milliseconds the catch block of retrieveTranslation sleeps.
ServerRetrySleepMs == 1000

RECURSIVE PowerOfTwo(_)
PowerOfTwo(n) == IF n <= 0 THEN 1 ELSE 2 * PowerOfTwo(n - 1)

\* getRetryDelayMs(attempt) with Math.random() = random / RandomSteps.
getRetryDelayMs(attemptNumber, random) ==
    LET exponentialDelay == BASE_BACKOFF_DELAY_MS * PowerOfTwo(attemptNumber - 1)
        jitter == (random * JitterSpan) \div RandomSteps
    IN Min2(MAX_BACKOFF_DELAY_MS, exponentialDelay + jitter)

\* A failed attempt with attempts remaining: of requestTranslationBatch with
\* a value of Math.random(), or of retrieveTranslation.
BackoffInputs ==
    {[loop |-> "client", attempt |-> n, random |-> r] :
        n \in 1..(MAX_BATCH_RETRIES - 1), r \in 0..(RandomSteps - 1)}
    \cup {[loop |-> "server", attempt |-> n, random |-> 0] :
             n \in 1..(MAX_RETRIES - 1)}

InitBackoff ==
    /\ NoRun
    /\ fnInput \in BackoffInputs
    /\ fnOutput = <<>>

\* requestTranslationBatch computes the delay it sleeps.
ClientBackoff ==
    /\ fnOutput = <<>>
    /\ fnInput.loop = "client"
    /\ fnOutput' = <<getRetryDelayMs(fnInput.attempt, fnInput.random)>>
    /\ UNCHANGED <<runVars, fnInput>>

\* The catch block of retrieveTranslation sleeps.
ServerBackoff ==
    /\ fnOutput = <<>>
    /\ fnInput.loop = "server"
    /\ fnOutput' = <<ServerRetrySleepMs>>
    /\ UNCHANGED <<runVars, fnInput>>

NextBackoff ==
    \/ ClientBackoff
    \/ ServerBackoff

SpecBackoff == InitBackoff /\ [][NextBackoff]_vars

\* The wait after attempt n is exponential in n from the base delay, capped,
\* with a jitter below JitterSpan.
WaitIsExponential(n, wait) ==
    /\ wait >= Min2(MAX_BACKOFF_DELAY_MS, BASE_BACKOFF_DELAY_MS * PowerOfTwo(n - 1))
    /\ wait <= MAX_BACKOFF_DELAY_MS
    /\ wait < BASE_BACKOFF_DELAY_MS * PowerOfTwo(n - 1) + JitterSpan

\* C22: when an attempt fails and attempts remain, the wait before the next
\* attempt is exponential in the attempt number from a base delay (1000 ms),
\* capped (12000 ms), with a jitter below 250 ms, in the backend retry loop
\* and in the client's batch retry loop.
C22_BackoffIsExponential ==
    fnOutput # <<>> => WaitIsExponential(fnInput.attempt, fnOutput[1])

\* The waits of the client's batch retry loop are exponential.
ClientBackoffIsExponential ==
    (fnOutput # <<>> /\ fnInput.loop = "client")
       => WaitIsExponential(fnInput.attempt, fnOutput[1])

\* The wait after the first attempt of retrieveTranslation is the base delay.
ServerFirstWaitIsBase ==
    (fnOutput # <<>> /\ fnInput.loop = "server" /\ fnInput.attempt = 1)
       => WaitIsExponential(fnInput.attempt, fnOutput[1])

\* retrieveTranslation has slept after its second failed attempt.
ServerSecondWait ==
    /\ fnOutput # <<>>
    /\ fnInput.loop = "server"
    /\ fnInput.attempt = 2

(***************************************************************************)
(* C23: the fetch attempts of requestTranslationBatch.                     *)
(***************************************************************************)

\* The error of the last attempt is one requestTranslationBatch retries: a
\* network error or a response with a retriable status.
LastErrorRetriable ==
    \/ lastError = <<"network">>
    \/ HttpFailure /\ isRetriableStatus(lastError[2])

\* The fetches of the current call of requestTranslationBatch: never more
\* than MAX_BATCH_RETRIES, and a call that threw an error it retries has
\* made MAX_BATCH_RETRIES fetches with MAX_BATCH_RETRIES - 1 waits between
\* them.
FetchesBounded ==
    /\ fetches <= MAX_BATCH_RETRIES
    /\ attempt <= MAX_BATCH_RETRIES
    /\ (runResult = "fetch" /\ LastErrorRetriable) =>
          /\ cpc = "end"
          /\ attempt = MAX_BATCH_RETRIES
          /\ fetches = MAX_BATCH_RETRIES
          /\ waits = MAX_BATCH_RETRIES - 1
    /\ cpc \in {"read", "pause"} => fetches = 0

\* A step that sends a fetch: the first of a batch, or the next of the same
\* batch after a wait that followed an attempt failed with an error
\* requestTranslationBatch retries.  No other step sends one, so none follows
\* a 2xx response.
FetchFollowsFailure ==
    (fetches' # fetches /\ fetches' # 0) =>
       \/ /\ cpc \in {"start", "read", "pause"}
          /\ fetches' = 1
          /\ attempt' = 1
       \/ /\ cpc = "backoff"
          /\ LastErrorRetriable
          /\ requestIndex' = requestIndex
          /\ fetches' = fetches + 1
          /\ waits = fetches

\* C23: requestTranslationBatch performs at most MAX_BATCH_RETRIES fetch
\* attempts per batch, returns the first 2xx response without any further
\* fetch, and when every attempt fails with a network error or a retriable
\* status performs exactly 5 fetches with exactly 4 waits between them and
\* then throws the error of the last attempt.
C23_FetchAttemptsBounded ==
    /\ []FetchesBounded
    /\ [][FetchFollowsFailure]_vars

\* Five fetches failed, the last one with status 503, and the Run ended on
\* the error thrown.
C23_Witness ==
    /\ cpc = "end"
    /\ runResult = "fetch"
    /\ fetches = MAX_BATCH_RETRIES
    /\ waits = MAX_BATCH_RETRIES - 1
    /\ lastError = <<"status", 503>>

(***************************************************************************)
(* C24: the pairing of translated pieces with segments.                    *)
(***************************************************************************)

\* The segments of the groups before the group at groupIndex.
RECURSIVE SegmentsBefore(_, _)
SegmentsBefore(groups, groupIndex) ==
    IF groupIndex = 0 THEN 0
    ELSE Len(groups[groupIndex]) + SegmentsBefore(groups, groupIndex - 1)

\* While a group is being translated the running index points at the group's
\* first segment in the flat list, and the group is the stretch of the list
\* that starts there.
IndexAtCurrentGroup ==
    srv.pc \in {"call", "sleep"} =>
       /\ srv.currentIndex = SegmentsBefore(srv.groups, srv.groupIndex)
       /\ srv.currentIndex + Len(CurrentGroup(srv)) <= Len(srv.segments)
       /\ \A j \in 1..Len(CurrentGroup(srv)) :
             srv.segments[srv.currentIndex + j] = CurrentGroup(srv)[j]

\* The blocks that pair the pieces one by one with the segments of group.
PairedBlocks(group, pieces) ==
    [j \in 1..Len(group) |->
        [id |-> group[j].id, timestamp |-> group[j].timestamp,
         text |-> Trim(pieces[j])]]

\* A step in which retrieveTranslation returns emits one block per piece,
\* the j-th with the id and timestamp of the group's j-th segment.
EmitsGroupPairs ==
    (srv.pc = "call" /\ Len(srv'.returns) = Len(srv.returns) + 1) =>
       /\ Len(LastReturned(srv')) = Len(CurrentGroup(srv))
       /\ emitted' = emitted \o PairedBlocks(CurrentGroup(srv), LastReturned(srv'))
       /\ srv'.currentIndex = srv.currentIndex + Len(CurrentGroup(srv))

\* C24: within a group, the j-th emitted block pairs the j-th translated
\* piece with the id and timestamp of the j-th segment of that group: the
\* running index into the flat segment list points at the group's j-th
\* segment when the piece is emitted, and the branch that skips a piece with
\* no segment is never taken.
C24_BlocksPairPiecesWithGroupSegments ==
    /\ []IndexAtCurrentGroup
    /\ [][EmitsGroupPairs]_vars

\* An invocation with two groups has emitted the blocks of both.
C24_Witness ==
    /\ srv.pc = "closed"
    /\ Len(srv.groups) = 2
    /\ Len(srv.returns) = 2
    /\ srv.currentIndex = Len(srv.segments)

(***************************************************************************)
(* C25: segments as large as the budget.                                   *)
(***************************************************************************)

\* The segment's own estimate reaches maxTokens.
ReachesBudget(segment, maxTokens) == estimateTokenCount(segment.text) >= maxTokens

\* C25: any segment whose own token estimate is >= maxTokens is placed in a
\* group of size exactly 1, never merged with a preceding or a following
\* segment, and the groups in order are the input in order, so the group
\* under construction before it is flushed first.
C25_LargeSegmentsAreSingletons ==
    fnOutput # <<>> =>
        /\ \A g \in 1..Len(ReturnedGroups) :
              (\E j \in 1..Len(ReturnedGroups[g]) :
                  ReachesBudget(ReturnedGroups[g][j], fnInput.length))
                 => Len(ReturnedGroups[g]) = 1
        /\ Concat(ReturnedGroups) = fnInput.segments

\* A segment whose estimate equals the budget is a group of its own between
\* a group that had room left and a following group.
C25_Witness ==
    /\ fnOutput # <<>>
    /\ fnInput.length >= 2
    /\ \E g \in 2..(Len(ReturnedGroups) - 1) :
          /\ Len(ReturnedGroups[g]) = 1
          /\ estimateTokenCount(ReturnedGroups[g][1].text) = fnInput.length
          /\ GroupCost(ReturnedGroups[g - 1]) < fnInput.length
          /\ ~ReachesBudget(ReturnedGroups[g + 1][1], fnInput.length)

(***************************************************************************)
(* C26: the ids normalizeSegmentIds assigns.                               *)
(***************************************************************************)

\* The blocks of the submitted document as parseSegment reads them.
ParsedBlocks == MapSeq(parseSegment, splitSrtBlocks(content))

\* The id parseSegment read is a positive finite integer.
HasOwnId(segment) == IsFinite(segment.id) /\ segment.id > 0

\* The 1-based position of block i among the valid blocks up to it.
RECURSIVE PositionAmongValid(_, _)
PositionAmongValid(parsed, i) ==
    IF i = 0 THEN 0
    ELSE PositionAmongValid(parsed, i - 1)
            + (IF IsValidSegment(parsed[i]) THEN 1 ELSE 0)

\* The segments of the Run are the parsed blocks in order, ids apart.
OrderKept(parsed) ==
    /\ Len(originalSegments) = Len(parsed)
    /\ \A i \in 1..Len(originalSegments) :
          /\ originalSegments[i].timestamp = parsed[i].timestamp
          /\ originalSegments[i].text = parsed[i].text
          /\ HasOwnId(parsed[i]) => originalSegments[i].id = parsed[i].id

\* Every valid segment without an id of its own has its position among the
\* valid blocks.
NumberedAmongValid(parsed) ==
    \A i \in 1..Len(originalSegments) :
       (IsValidSegment(parsed[i]) /\ ~HasOwnId(parsed[i]))
          => originalSegments[i].id = PositionAmongValid(parsed, i)

\* Every segment without an id of its own has its position among all the
\* blocks.
NumberedAmongAll(parsed) ==
    \A i \in 1..Len(originalSegments) :
       ~HasOwnId(parsed[i]) => originalSegments[i].id = i

\* C26: every segment whose parsed id is not a positive finite integer is
\* renumbered to its 1-based position among the valid segments of the
\* document (blocks that fail the validity invariant do not count towards
\* that position), and relative order is preserved.
C26_RenumberedAmongValidSegments ==
    originalSegments # <<>> =>
        /\ OrderKept(ParsedBlocks)
        /\ NumberedAmongValid(ParsedBlocks)

\* What the code does: a segment without an id of its own gets its position
\* among all the blocks of the document.
RenumberedAmongAllBlocks ==
    originalSegments # <<>> =>
        /\ OrderKept(ParsedBlocks)
        /\ NumberedAmongAll(ParsedBlocks)

\* In a document whose blocks are all valid the two positions are the same.
RenumberedInValidDocuments ==
    (originalSegments # <<>> /\ AllValidIn(<<originalSegments>>)) =>
        NumberedAmongValid(ParsedBlocks)

\* A Run on a document with a valid cue without an id after an invalid block.
InvalidBlockBeforeUnnumberedCue ==
    /\ Len(originalSegments) = 2
    /\ ~IsValidSegment(originalSegments[1])
    /\ IsValidSegment(originalSegments[2])
    /\ originalSegments[2].id = 2
    /\ ~HasOwnId(ParsedBlocks[2])

(***************************************************************************)
(* C27: the blocks the streaming decoder makes chunks of.                  *)
(***************************************************************************)

\* The chunk comes from a block with a timestamp line and a text.
ChunkHasTimestampAndText(chunk) == chunk.start # <<>> /\ chunk.text # <<>>

\* C27: the streaming decoder emits a chunk, and counts it as a translated
\* segment, only for a block whose parsed timestamp and parsed text are both
\* non-empty; a block lacking a timestamp line or lacking text produces no
\* chunk.
C27_ChunksOnlyForTimestampedText ==
    \A k \in 1..Len(fnOutput.chunks) : ChunkHasTimestampAndText(fnOutput.chunks[k])

\* What the decoder does: it counts every chunk it emits, and it emits one for
\* every block that is not blank, the blocks of the text being those between
\* its blank-line separators.
RECURSIVE CountNotBlank(_)
CountNotBlank(blocks) ==
    IF blocks = <<>> THEN 0
    ELSE (IF Trim(Head(blocks)) # <<>> THEN 1 ELSE 0) + CountNotBlank(Tail(blocks))

ChunkForEveryBlock ==
    /\ fnOutput.locals.translatedSegmentCount = Len(fnOutput.chunks)
    /\ fnOutput.pc = "done" =>
          Len(fnOutput.chunks) = CountNotBlank(SplitRegex(MatchBlankLine, fnInput.text))

\* The decoder has emitted a chunk for a block without a timestamp line.
ChunkWithoutTimestamp ==
    \E k \in 1..Len(fnOutput.chunks) :
       /\ fnOutput.chunks[k].start = <<>>
       /\ fnOutput.chunks[k].text = StreamBlock3

(***************************************************************************)
(* C28: splitTranslatedSegments on responses whose delimiters have         *)
(* drifted from the canonical one.                                         *)
(***************************************************************************)

\* Largest number of pieces in a response.
MaxDriftPieces == 3

\* The texts of the pieces: one word, and two lines with a space.
DriftTexts == {<<"H", "i">>, <<"G", "o", "\n", "o", " ", "n">>}

\* The delimiter as the backend may write it: in double or single quotation
\* marks, or with one on one side only.
QuotedDelimiters ==
    {<<"\"">> \o TRANSLATION_DELIMITER \o <<"\"">>,
     <<"'">> \o TRANSLATION_DELIMITER \o <<"'">>,
     TRANSLATION_DELIMITER \o <<"\"">>}

\* With whitespace between the bars and the word.
SpacedDelimiters ==
    {<<"|", "|", "|", " ">> \o TRANSLATION_DELIMITER_CORE
         \o <<" ", "|", "|", "|">>,
     <<"|", "|", "|">> \o TRANSLATION_DELIMITER_CORE \o <<"\n", "|", "|", "|">>}

\* With one bar too many, before or after the word.
ExtraBarDelimiters ==
    {<<"|">> \o TRANSLATION_DELIMITER,
     TRANSLATION_DELIMITER \o <<"|">>}

DriftedDelimiters == QuotedDelimiters \cup SpacedDelimiters \cup ExtraBarDelimiters

\* The response with texts[i] followed by delimiters[i].
RECURSIVE ResponseOf(_, _)
ResponseOf(texts, delimiters) ==
    IF Len(texts) = 1 THEN texts[1]
    ELSE texts[1] \o delimiters[1] \o ResponseOf(Tail(texts), Tail(delimiters))

DriftInputs ==
    {[texts |-> t, delimiters |-> d] :
        t \in {q \in SeqsUpTo(DriftTexts, MaxDriftPieces) : Len(q) >= 2},
        d \in SeqsUpTo(DriftedDelimiters \cup {TRANSLATION_DELIMITER},
                       MaxDriftPieces - 1)}

InitDrift ==
    /\ NoRun
    /\ fnInput \in {in \in DriftInputs : Len(in.delimiters) = Len(in.texts) - 1}
    /\ fnOutput = <<>>

\* The call splitTranslatedSegments(rawText) returns.
SplitResponse ==
    /\ fnOutput = <<>>
    /\ fnOutput' = <<splitTranslatedSegments(ResponseOf(fnInput.texts,
                                                        fnInput.delimiters))>>
    /\ UNCHANGED <<runVars, fnInput>>

NextDrift == SplitResponse

SpecDrift == InitDrift /\ [][NextDrift]_vars

\* The pieces of the same response written with the canonical delimiter.
CanonicalPieces ==
    splitTranslatedSegments(JoinWith(fnInput.texts, TRANSLATION_DELIMITER))

DelimitersAmong(set) ==
    \A i \in 1..Len(fnInput.delimiters) : fnInput.delimiters[i] \in set

\* C28: a backend response in which delimiters occur with surrounding quote
\* marks, with whitespace inside the delimiter, or with duplicated delimiter
\* characters (an extra bar) splits into exactly the same trimmed pieces as
\* the same response written with the canonical delimiter.
C28_DriftedDelimitersSplitAlike ==
    fnOutput # <<>> => fnOutput[1] = CanonicalPieces

\* The part that holds: quotation marks around the delimiter and whitespace
\* inside it are normalized.
QuotedAndSpacedSplitAlike ==
    (fnOutput # <<>>
        /\ DelimitersAmong(QuotedDelimiters \cup SpacedDelimiters
                              \cup {TRANSLATION_DELIMITER}))
       => fnOutput[1] = CanonicalPieces

\* With an extra bar the number of pieces is still the canonical one.
ExtraBarKeepsCount ==
    fnOutput # <<>> => Len(fnOutput[1]) = Len(CanonicalPieces)

\* A response with an extra bar before a delimiter was split and a piece
\* ends with the bar.
ExtraBarLeftInPiece ==
    /\ fnOutput # <<>>
    /\ fnInput.delimiters[1] = <<"|">> \o TRANSLATION_DELIMITER
    /\ fnOutput[1][1] = fnInput.texts[1] \o <<"|">>

(***************************************************************************)
(* C29: the progress counters of a busy Run.                               *)
(***************************************************************************)

\* The counters are within their totals and no more requests are completed
\* than started.
ProgressWithinTotals ==
    status = "busy" =>
       /\ 0 <= progress.translatedSegments
       /\ progress.translatedSegments <= progress.totalSegments
       /\ 0 <= progress.completedRequests
       /\ progress.completedRequests <= progress.activeRequest
       /\ progress.activeRequest <= progress.totalRequests

\* A step of a busy Run does not take translated segments back.
TranslatedNeverDecreases ==
    (status = "busy" /\ status' = "busy") =>
       progress'.translatedSegments >= progress.translatedSegments

\* C29: while a Run is busy, progress.translatedSegments never decreases and
\* the counters always satisfy 0 <= translatedSegments <= totalSegments and
\* 0 <= completedRequests <= activeRequest <= totalRequests.
C29_ProgressCountersBounded ==
    /\ []ProgressWithinTotals
    /\ [][TranslatedNeverDecreases]_vars

\* The second of two batches is being requested after the first was counted.
C29_Witness ==
    /\ status = "busy"
    /\ progress.totalRequests = 2
    /\ progress.completedRequests = 1
    /\ progress.activeRequest = 2
    /\ progress.translatedSegments >= 1
    /\ progress.translatedSegments < progress.totalSegments

(***************************************************************************)
(* C30: two POST requests handled at the same time.  Each invocation of    *)
(* POST has its own segments, groups and currentIndex, and the steps of    *)
(* the two interleave at their awaits in any order.                        *)
(***************************************************************************)

\* The number of requests in flight together.
ConcurrentPosts == 2

\* The block sequences of the request contents: two cues that make a group
\* each, the same in the other order, and an unnumbered cue before a numbered
\* one in one group.
ConcurrentRequestBlocks == {<<1, 2>>, <<2, 1>>, <<3, 1>>}

ConcurrentRequests ==
    {JoinWith([i \in 1..Len(q) |-> DocBlocks[q[i]]], <<"\n", "\n">>) :
        q \in ConcurrentRequestBlocks}

InitConcurrent ==
    /\ NoRun
    /\ fnInput \in [1..ConcurrentPosts -> ConcurrentRequests]
    /\ fnOutput = [handlers |-> [k \in 1..ConcurrentPosts |-> NoHandler],
                   responses |-> [k \in 1..ConcurrentPosts |-> <<>>]]

\* One index for the module, advanced by every invocation.
EmissionIndexShared(handlers, k) ==
    handlers[1].currentIndex + handlers[2].currentIndex

\* let currentIndex = 0 inside POST: the index invocation k emits with is the
\* invocation's own.
EmissionIndex(handlers, k) == handlers[k].currentIndex

\* POST accepts request k and start() runs up to its first backend call.
PostAccepted(k) ==
    /\ fnOutput.handlers[k].pc = "none"
    /\ RouteStatus(fnInput[k]) = 200
    /\ fnOutput' = [fnOutput EXCEPT !.handlers[k] = NewHandler(fnInput[k], k)]
    /\ UNCHANGED <<runVars, fnInput>>

\* The backend call of invocation k returns text.
PostBackendReturns(k) ==
    /\ fnOutput.handlers[k].pc = "call"
    /\ \E rawText \in BackendResponses(GroupTexts(CurrentGroup(fnOutput.handlers[k]))) :
          LET h == fnOutput.handlers[k]
              pieces == splitTranslatedSegments(rawText)
              blocks == EmitPieces(h.segments, EmissionIndex(fnOutput.handlers, k),
                                   pieces)
          IN fnOutput' =
                IF ShapeAccepted(pieces, Len(CurrentGroup(h)))
                THEN [fnOutput EXCEPT !.handlers[k] = GroupDone(h, pieces),
                                      !.responses[k] = @ \o BlockRecords(blocks)]
                ELSE [fnOutput EXCEPT !.handlers[k] = AttemptFailed(h, "shape")]
    /\ UNCHANGED <<runVars, fnInput>>

\* The backend call of invocation k rejects.
PostBackendFails(k) ==
    /\ fnOutput.handlers[k].pc = "call"
    /\ fnOutput' = [fnOutput EXCEPT
                       !.handlers[k] = AttemptFailed(fnOutput.handlers[k], "backend")]
    /\ UNCHANGED <<runVars, fnInput>>

\* The sleep of invocation k is over.
PostRetry(k) ==
    /\ fnOutput.handlers[k].pc = "sleep"
    /\ fnOutput' = [fnOutput EXCEPT !.handlers[k] = NextAttempt(fnOutput.handlers[k])]
    /\ UNCHANGED <<runVars, fnInput>>

NextConcurrent ==
    \E k \in 1..ConcurrentPosts :
       \/ PostAccepted(k)
       \/ PostBackendReturns(k)
       \/ PostBackendFails(k)
       \/ PostRetry(k)

SpecConcurrent == InitConcurrent /\ [][NextConcurrent]_vars

\* The blocks are, by id and timestamp and in order, the first of segments.
BlocksFollowSegments(blocks, segments) ==
    /\ Len(blocks) <= Len(segments)
    /\ \A i \in 1..Len(blocks) :
          /\ blocks[i].id = segments[i].id
          /\ blocks[i].timestamp = segments[i].timestamp

\* Invocation k works on the segments and groups of its own request, and its
\* response holds blocks of those segments only, in their order, one for each
\* piece returned to it so far.
OwnRequestOnly(k) ==
    LET h == fnOutput.handlers[k]
    IN /\ BlocksFollowSegments(fnOutput.responses[k], RequestSegments(fnInput[k]))
       /\ h.pc # "none" =>
             /\ h.segments = RequestSegments(fnInput[k])
             /\ h.groups = groupSegmentsByTokenLength(h.segments,
                                                      maxTokensPerTranslationRequest)
             /\ h.currentIndex = Len(fnOutput.responses[k])
             /\ h.pc = "closed" => Len(fnOutput.responses[k]) = Len(h.segments)

\* A step leaves the invocation and the response of at least one of the two
\* requests as they were: one request's step touches nothing of the other.
OtherUntouched ==
    \E k \in 1..ConcurrentPosts :
       /\ fnOutput'.handlers[k] = fnOutput.handlers[k]
       /\ fnOutput'.responses[k] = fnOutput.responses[k]

\* C30: for any interleaving of two concurrent POST requests, each response
\* contains only blocks whose ids and timestamps come from that request's own
\* segments, in that request's own order: the emission index, the segment
\* list and the groups of one request are never read or written by the other.
C30_ConcurrentRequestsIsolated ==
    /\ [](\A k \in 1..ConcurrentPosts : OwnRequestOnly(k))
    /\ [][OtherUntouched]_vars

\* Two different requests of two groups each are both between their first
\* and their second group, each with its first block emitted.
C30_Witness ==
    /\ fnInput[1] # fnInput[2]
    /\ \A k \in 1..ConcurrentPosts :
          /\ fnOutput.handlers[k].pc \in {"call", "sleep"}
          /\ fnOutput.handlers[k].groupIndex = 1
          /\ Len(fnOutput.responses[k]) = 1

(***************************************************************************)
(* C31: a new group is opened only when the next segment does not fit.     *)
(***************************************************************************)

\* The group is one segment whose own estimate reaches maxTokens.
IsLargeSingleton(group, maxTokens) ==
    Len(group) = 1 /\ ReachesBudget(group[1], maxTokens)

\* Group g of the returned groups could not take the first segment of the
\* group after it.
NextDoesNotFit(groups, g, maxTokens) ==
    GroupCost(groups[g]) + DELIMITER_TOKEN_COST
        + estimateTokenCount(groups[g + 1][1].text) > maxTokens

\* C31: the batcher is greedy-maximal: for any two consecutive groups G and H
\* where H's first segment s has an estimate < maxTokens and G is not a
\* singleton of a segment with estimate >= maxTokens,
\* cost(G) + 1 + estimate(s) > maxTokens.
C31_GroupsAreGreedyMaximal ==
    fnOutput # <<>> =>
        \A g \in 1..(Len(ReturnedGroups) - 1) :
            (/\ ~ReachesBudget(ReturnedGroups[g + 1][1], fnInput.length)
             /\ ~IsLargeSingleton(ReturnedGroups[g], fnInput.length))
               => NextDoesNotFit(ReturnedGroups, g, fnInput.length)

\* A group of two segments with room left for a delimiter only is followed
\* by a group that starts with a small segment.
C31_Witness ==
    /\ fnOutput # <<>>
    /\ \E g \in 1..(Len(ReturnedGroups) - 1) :
          /\ Len(ReturnedGroups[g]) = 2
          /\ GroupCost(ReturnedGroups[g]) < fnInput.length
          /\ ~ReachesBudget(ReturnedGroups[g + 1][1], fnInput.length)
          /\ NextDoesNotFit(ReturnedGroups, g, fnInput.length)

(***************************************************************************)
(* C32: the route reads from a request the segments the client put in it.  *)
(***************************************************************************)

\* The group of the Run that the invocation h was requested for.
RequestedGroup(h) == requestGroups[h.requestNumber]

GroupIsValid(group) == \A i \in 1..Len(group) : IsValidSegment(group[i])

HandlesRequestedGroup(h) ==
    (h.pc # "none" /\ h.requestNumber <= Len(requestGroups))
        => h.segments = RequestedGroup(h)

\* C32: for every group the client serializes and sends, the server's
\* re-splitting and re-parsing of that content yields exactly group.length
\* segments with the same ids, timestamps and texts, in the same order.
C32_ServerReadsTheGroupSent ==
    /\ HandlesRequestedGroup(srv)
    /\ \A o \in 1..Len(orphans) : HandlesRequestedGroup(orphans[o])

\* The same for the groups whose segments all have a timestamp and a text.
ServerReadsValidGroupSent ==
    (srv.pc # "none" /\ srv.requestNumber <= Len(requestGroups)
        /\ GroupIsValid(RequestedGroup(srv)))
        => srv.segments = RequestedGroup(srv)

\* A group of two valid segments, one with two lines of text, was read back.
ValidGroupReadBack ==
    /\ srv.pc # "none"
    /\ srv.requestNumber <= Len(requestGroups)
    /\ Len(RequestedGroup(srv)) = 2
    /\ GroupIsValid(RequestedGroup(srv))
    /\ srv.segments = RequestedGroup(srv)

\* The route read more segments than the group has.
ServerReadsMoreSegments ==
    ~(/\ srv.pc # "none"
      /\ srv.requestNumber <= Len(requestGroups)
      /\ Len(srv.segments) > Len(RequestedGroup(srv)))

(***************************************************************************)
(* One group from the backend's answer to the end of handleStream: the     *)
(* route splits and checks the answer and writes its blocks, the client    *)
(* reads them.                                                             *)
(***************************************************************************)

MaxAnswerPieces == 3

\* Texts of the pieces of an answer: a word, two lines, two paragraphs, a
\* quotation, nothing.
AnswerTexts ==
    {<<"H", "i">>, <<"G", "o", "\n", "o", "n">>, <<"G", "o", "\n", "\n", "o", "n">>,
     <<"\"", "a", "\"">>, <<>>}

AnswerSegments ==
    <<[id |-> 1, timestamp |-> Timestamp1, text |-> <<"H", "i">>],
      [id |-> 2, timestamp |-> Timestamp2, text |-> <<"Y", "o">>]>>

AnswerInputs ==
    {[group |-> SubSeq(AnswerSegments, 1, n), texts |-> t] :
        n \in 1..Len(AnswerSegments),
        t \in SeqsUpTo(AnswerTexts, MaxAnswerPieces) \ {<<>>}}

InitAnswer ==
    /\ NoRun
    /\ fnInput \in AnswerInputs
    /\ fnOutput = [pc |-> "call", pieces |-> <<>>, queue |-> <<>>,
                   locals |-> EmptyStream]

\* generateText resolves: retrieveTranslation splits the answer and checks
\* its shape; start() enqueues the blocks of an accepted answer and closes.
RouteAnswers ==
    /\ fnOutput.pc = "call"
    /\ LET pieces == splitTranslatedSegments(JoinWith(fnInput.texts,
                                                      TRANSLATION_DELIMITER))
       IN fnOutput' =
             IF ShapeAccepted(pieces, Len(fnInput.group))
             THEN [fnOutput EXCEPT
                      !.pc = "read", !.pieces = pieces,
                      !.queue = BlockBytes(EmitPieces(fnInput.group, 0, pieces))]
             ELSE [fnOutput EXCEPT !.pc = "rejected"]
    /\ UNCHANGED <<runVars, fnInput>>

\* reader.read() resolves with a fragment of the response.
AnswerRead ==
    /\ fnOutput.pc = "read"
    /\ fnOutput.queue # <<>>
    /\ \E k \in FragmentCuts(fnOutput.queue) :
          fnOutput' =
             [fnOutput EXCEPT
                 !.queue = SubSeq(@, k + 1, Len(@)),
                 !.locals = ReadFragment(fnOutput.locals,
                                         SubSeq(fnOutput.queue, 1, k)).locals]
    /\ UNCHANGED <<runVars, fnInput>>

\* reader.read() resolves with done.
AnswerReadDone ==
    /\ fnOutput.pc = "read"
    /\ fnOutput.queue = <<>>
    /\ fnOutput' = [fnOutput EXCEPT !.pc = "done",
                                    !.locals = FlushTrailing(fnOutput.locals).locals]
    /\ UNCHANGED <<runVars, fnInput>>

NextAnswer == RouteAnswers \/ AnswerRead \/ AnswerReadDone

SpecAnswer == InitAnswer /\ [][NextAnswer]_vars

(***************************************************************************)
(* C33: an accepted answer is counted as the group's number of blocks.     *)
(***************************************************************************)

\* The text has an empty line inside.
HasBlankLine(text) ==
    \E i \in 1..Len(text) : MatchBlankLine(text, i) > 0

\* C33: for every backend response that the server accepts for a group of n
\* segments, the client's streaming decoder reading the resulting output
\* counts exactly n blocks, whatever text the accepted pieces contain.
C33_AcceptedAnswerCountsGroup ==
    fnOutput.pc = "done" =>
        BatchComplete(fnOutput.locals.translatedSegmentCount, fnInput.group)

\* The same for the answers none of whose pieces has an empty line inside.
AnswerWithoutBlankLineCountsGroup ==
    (fnOutput.pc = "done"
        /\ \A i \in 1..Len(fnOutput.pieces) : ~HasBlankLine(fnOutput.pieces[i]))
        => BatchComplete(fnOutput.locals.translatedSegmentCount, fnInput.group)

\* An accepted answer of two pieces, one of two lines, was read and counted.
TwoPiecesCounted ==
    /\ fnOutput.pc = "done"
    /\ Len(fnOutput.pieces) = 2
    /\ \E i \in 1..2 : fnOutput.pieces[i] = <<"G", "o", "\n", "o", "n">>
    /\ fnOutput.locals.translatedSegmentCount = 2

\* A piece of two paragraphs is counted as two blocks.
ParagraphsCountedTwice ==
    ~(/\ fnOutput.pc = "done"
      /\ fnOutput.pieces = <<<<"G", "o", "\n", "\n", "o", "n">>>>
      /\ fnOutput.locals.translatedSegmentCount = 2)

(***************************************************************************)
(* splitTranslatedSegments on texts joined with the canonical delimiter.   *)
(***************************************************************************)

MaxJoinedTexts == 3

\* Trimmed, non-empty texts without the delimiter: a word, two lines, a
\* quotation, a word after an apostrophe, two lines with a CRLF line break.
JoinTexts ==
    {<<"H", "i">>, <<"G", "o", "\n", "o", "n">>, <<"\"", "a", "\"">>,
     <<"'", "t", "i", "s">>, <<"G", "o", "\r", "\n", "o", "n">>}

InitJoin ==
    /\ NoRun
    /\ fnInput \in SeqsUpTo(JoinTexts, MaxJoinedTexts) \ {<<>>}
    /\ fnOutput = <<>>

\* The call splitTranslatedSegments(texts.join(TRANSLATION_DELIMITER)) returns.
SplitJoined ==
    /\ fnOutput = <<>>
    /\ fnOutput' = <<splitTranslatedSegments(JoinWith(fnInput,
                                                      TRANSLATION_DELIMITER))>>
    /\ UNCHANGED <<runVars, fnInput>>

NextJoin == SplitJoined

SpecJoin == InitJoin /\ [][NextJoin]_vars

(***************************************************************************)
(* C34: joining with the delimiter and splitting gives the texts back.     *)
(***************************************************************************)

\* The text has a quotation mark where a delimiter can touch it.
QuoteAtEdge(text) == text[1] \in QuoteChars \/ text[Len(text)] \in QuoteChars

HasCrLf(text) == \E i \in 1..Len(text) : MatchCrLf(text, i) > 0

\* C34: for any list of n >= 1 texts that are each trimmed, non-empty and free
\* of the delimiter, splitTranslatedSegments applied to those texts joined
\* with the canonical delimiter returns exactly those n texts, unchanged and
\* in order, including texts that begin or end with a quotation mark.
C34_JoinSplitRoundTrip ==
    fnOutput # <<>> => fnOutput[1] = fnInput

\* The same for texts without a quotation mark at an end and without a CRLF
\* line break.
PlainTextsRoundTrip ==
    (fnOutput # <<>>
        /\ \A i \in 1..Len(fnInput) : ~QuoteAtEdge(fnInput[i]) /\ ~HasCrLf(fnInput[i]))
        => fnOutput[1] = fnInput

\* Three plain texts, one of two lines, came back unchanged.
PlainTextsCameBack ==
    /\ fnOutput # <<>>
    /\ Len(fnInput) = 3
    /\ \A i \in 1..Len(fnInput) : ~QuoteAtEdge(fnInput[i]) /\ ~HasCrLf(fnInput[i])
    /\ \E i \in 1..Len(fnInput) : fnInput[i] = <<"G", "o", "\n", "o", "n">>
    /\ fnOutput[1] = fnInput

\* The number of texts is kept for all the inputs.
JoinSplitKeepsCount ==
    fnOutput # <<>> => Len(fnOutput[1]) = Len(fnInput)

\* A quotation before a delimiter loses its closing mark.
ClosingQuoteLost ==
    ~(/\ fnOutput # <<>>
      /\ fnInput = <<<<"\"", "a", "\"">>, <<"H", "i">>>>
      /\ fnOutput[1] = <<<<"\"", "a">>, <<"H", "i">>>>)

\* A quotation on its own, with no delimiter next to it, is kept.
LoneQuotationKept ==
    (fnOutput # <<>> /\ fnInput = <<<<"\"", "a", "\"">>>>) => fnOutput[1] = fnInput

(***************************************************************************)
(* C35: backend calls per group, client and route retries together.        *)
(***************************************************************************)

\* The backend calls the invocation h has made so far for group g of batch r.
CallsFor(h, r, g) ==
    IF h.pc # "none" /\ h.requestNumber = r /\ h.groupIndex = g THEN h.calls ELSE 0

\* The calls made for the group the connected invocation is at, by it and by
\* the invocations the client has given up.
CallsForCurrentGroup ==
    LET CallsOf(h) == CallsFor(h, srv.requestNumber, srv.groupIndex)
    IN CallsOf(srv) + SumOver(CallsOf, orphans)

\* An invocation has started backend work for batch r.
StartedFor(h, r) == h.pc # "none" /\ h.requestNumber = r

\* The client is not about to request a batch the route has started work for.
StartedBatchNotRequestedAgain ==
    cpc = "fetch" =>
        /\ ~StartedFor(srv, requestIndex + 1)
        /\ \A o \in 1..Len(orphans) : ~StartedFor(orphans[o], requestIndex + 1)

\* C35: in any Run, the backend is invoked at most MAX_RETRIES times for any
\* one group, counting the client's batch-level retries and the server's
\* attempt-level retries together; a batch for which the server has started
\* backend work is never requested a second time by the client.
C35_BackendCallsPerGroupBounded ==
    /\ CallsForCurrentGroup <= MAX_RETRIES
    /\ StartedBatchNotRequestedAgain

\* While no response is lost between route and client the property holds.
CallsBoundedWhileNoResponseLost == lost = 0 => C35_BackendCallsPerGroupBounded

\* With no response lost, the route makes its third call for the group of
\* the Run's second batch.
ThirdCallForSecondBatch ==
    /\ lost = 0
    /\ srv.requestNumber = 2
    /\ srv.pc = "call"
    /\ CallsForCurrentGroup = MAX_RETRIES

\* The client requests a batch again that an invocation is working on.
BatchRequestedAgain == StartedBatchNotRequestedAgain

\* More than MAX_RETRIES calls were made for one group.
FourthCallForGroup == CallsForCurrentGroup <= MAX_RETRIES

(***************************************************************************)
(* The Run under the assumption that what is awaited is settled: every     *)
(* fetch, read, sleep and backend call that can resolve, reject or time    *)
(* out eventually does.                                                    *)
(***************************************************************************)

\* The documents of the fair Runs: a cue alone, the cue followed by the cue of
\* two lines, and the block that is no cue.
FairDocuments ==
    {JoinWith([i \in 1..Len(q) |-> DocBlocks[q[i]]], <<"\n", "\n">>) :
        q \in {<<1>>, <<1, 2>>, <<4>>}}

InitFair == Init /\ content \in FairDocuments

\* await fetch(...) settles: it rejects, or resolves with a response of the
\* platform or of the route.
FetchSettles == FetchRejects \/ FetchGatewayStatus \/ FetchServed \/ FetchLost

\* await reader.read() settles: with a fragment, with done, or by rejecting.
ReadSettles == ClientRead \/ ClientReadDone \/ ClientReadFails

\* The response stream has something for a pending read: bytes, its end or
\* its error.
ReadReady == streamQueue # <<>> \/ srv.pc \in {"closed", "errored"}

\* A timer of the client fires, or a backend call or a sleep of a route
\* invocation, connected or given up, is over.
TimerOrBackendSettles ==
    \/ BackoffDone
    \/ PauseDone
    \/ BackendReturns
    \/ BackendFails
    \/ BackendTimesOut
    \/ DeadlineFiresDuringSleep
    \/ ServerRetry
    \/ OrphanBackendReturns
    \/ OrphanBackendFails
    \/ OrphanDeadlineFiresDuringSleep
    \/ OrphanRetry

\* Weak fairness of the steps that settle what is awaited.  For the fetch and
\* for the read the condition is written out, with the state in which the
\* step is possible in the place of ENABLED: a fetch can settle whenever one
\* is pending, a read whenever the stream has something for it.  Submit is
\* the user's step and is not assumed to happen.
SpecFair ==
    /\ InitFair
    /\ [][Next]_vars
    /\ WF_vars(TimerOrBackendSettles)
    /\ ([]<>(cpc # "fetch") \/ []<><<FetchSettles>>_vars)
    /\ ([]<>~(cpc = "read" /\ ReadReady) \/ []<><<ReadSettles>>_vars)

(***************************************************************************)
(* C36: a Run that became busy ends.                                       *)
(***************************************************************************)

\* No route invocation, connected or given up, is in a backend call or in a
\* sleep before one.
BackendWorkOver ==
    /\ ~IsWorking(srv)
    /\ \A o \in 1..Len(orphans) : ~IsWorking(orphans[o])

\* C36: assuming every backend call eventually returns, fails or hits its
\* deadline and every fetch and stream read eventually resolves or rejects,
\* every Run that enters status 'busy' eventually reaches 'done' or returns
\* to 'idle', and from some point on no backend call is made any more.
C36_RunTerminates ==
    /\ (status = "busy") ~> (status \in {"done", "idle"})
    /\ <>[]BackendWorkOver

\* A Run of two batches ended 'done' after a response was lost, with the
\* invocation that was given up at rest.
C36_Witness ==
    /\ status = "done"
    /\ Len(requestGroups) = 2
    /\ lost = 1
    /\ BackendWorkOver

(***************************************************************************)
(* C37: a failed Run is idle again with its counters and timer empty.      *)
(***************************************************************************)

\* The results of the failure paths of handleSubmit after setStatus("busy").
FailureResults ==
    {"noblocks", "parse", "fetch", "stream", "batchcount", "totalcount",
     "emptyoutput"}

\* What setStatus("idle") and resetRunState() leave.
RunStateReset ==
    /\ status = "idle"
    /\ startedAt = "null"
    /\ progress = EMPTY_PROGRESS

\* A step of the success path: handleSubmit was busy, ends with a download.
SuccessStep ==
    /\ status = "busy"
    /\ runResult' = "done"
    /\ cpc' = "end"
    /\ Len(downloads') = Len(downloads) + 1

\* C37: on every failure path of handleSubmit after the Run became busy,
\* status returns to 'idle' and the progress counters and timer are reset to
\* their empty values; status 'done' is reachable only from 'busy' and only
\* on the success path.
C37_FailureResetsRunState ==
    /\ [](runResult \in FailureResults => RunStateReset /\ cpc = "end")
    /\ [](status = "done" <=> runResult = "done")
    /\ [][(status' = "done" /\ status # "done") => SuccessStep]_vars
    /\ [][(status = "busy" /\ status' = "idle") => runResult' \in FailureResults]_vars

\* A Run whose second batch came back with a wrong number of blocks is idle
\* with empty counters while the chunks of the first batch are still shown.
\* A document without blocks ended the Run at once.
NoBlocksRunReset ==
    runResult = "noblocks" /\ RunStateReset /\ content = BlankDocument

C37_Witness ==
    /\ runResult = "batchcount"
    /\ requestIndex = 1
    /\ translatedChunks # <<>>
    /\ RunStateReset

(***************************************************************************)
(* C38: between batches the progress counters agree with the groups.       *)
(***************************************************************************)

\* handleSubmit is busy and no response stream is being read: it waits for a
\* fetch, for a backoff before one, or for the delay between two batches.
BetweenBatches == status = "busy" /\ cpc \in {"fetch", "backoff", "pause"}

\* The batches whose results handleSubmit has taken.
BatchesTaken == IF cpc = "pause" THEN requestIndex + 1 ELSE requestIndex

CountersAgreeWithGroups ==
    BetweenBatches =>
        /\ progress.completedRequests = BatchesTaken
        /\ progress.translatedSegments =
              SegmentsInGroups(requestGroups, progress.completedRequests)

CountersCompleteAtDone ==
    status = "done" =>
        /\ progress.translatedSegments = progress.totalSegments
        /\ progress.completedRequests = progress.totalRequests
        /\ progress.totalSegments = Len(originalSegments)
        /\ progress.totalRequests = Len(requestGroups)

\* C38: between batches of a busy Run, whenever completedRequests = k,
\* translatedSegments equals the total number of segments in the first k
\* groups, and at 'done' translatedSegments = totalSegments and
\* completedRequests = totalRequests.
C38_ProgressAgreesWithGroups ==
    /\ CountersAgreeWithGroups
    /\ CountersCompleteAtDone

\* The first of two batches was counted: a fetch of the second is pending
\* after a backoff.
C38_Witness ==
    /\ status = "busy"
    /\ cpc = "fetch"
    /\ attempt = 2
    /\ Len(requestGroups) = 2
    /\ progress.completedRequests = 1
    /\ progress.translatedSegments = Len(requestGroups[1])
    /\ progress.translatedSegments < progress.totalSegments

=============================================================================
